---------------------------- MODULE Spec2Model ----------------------------
(***************************************************************************)
(* A model of the Cairo VM core of cairo-rs: the fetch/decode/execute      *)
(* engine of src/vm/vm_core.rs and the dictionary and pow hints of         *)
(* src/vm/hints.  Memory, the run context, the decoder, MaybeRelocatable   *)
(* arithmetic, the dict manager and the hint helpers live in files that    *)
(* are not part of the sources at hand; they are modelled from the         *)
(* specification and from the way vm_core.rs and the tests call them.      *)
(***************************************************************************)
EXTENDS Integers, Sequences, FiniteSets, TLC

(***************************************************************************)
(* Bounds of the model.                                                    *)
(***************************************************************************)
\* the field prime handed to VirtualMachine::new (the tests use small ones)
PRIME == 13
\* a step is not taken once the trace holds this many entries
MaxTrace == 6
\* hints run at most this many times in one behaviour
MaxCalls == 2

(***************************************************************************)
(* MaybeRelocatable: IntV(n) or RelocatableValue(segment, offset).  None is *)
(* Option::None.  An instruction word is an Int of 63 bits; it is carried  *)
(* as its four base-2^16 digits, least significant first.                  *)
(***************************************************************************)
None == <<"None">>

IntV(n) == <<"Int", n>>

RelV(s, o) == <<"Rel", s, o>>

Word(l0, l1, l2, l3) == <<"Int", l0, l1, l2, l3>>

IsNone(v) == v[1] = "None"

IsInt(v) == v[1] = "Int"

IsRel(v) == v[1] = "Rel"

IsWord(v) == IsInt(v) /\ Len(v) = 5

IsSmallInt(v) == IsInt(v) /\ Len(v) = 2

\* the base-2^16 digits of an Int used as an instruction encoding
Digits(v) ==
    IF IsWord(v) THEN <<v[2], v[3], v[4], v[5]>>
    ELSE <<v[2] % 65536, (v[2] \div 65536) % 65536, 0, 0>>

\* BigInt's % and / truncate towards zero
Rem(a, p) == IF a >= 0 THEN a % p ELSE -((-a) % p)

Quot(a, b) ==
    IF (a >= 0) = (b > 0) THEN (IF a >= 0 THEN a \div b ELSE (-a) \div (-b))
    ELSE -((IF a >= 0 THEN a ELSE -a) \div (IF b >= 0 THEN b ELSE -b))

\* Integer::mod_floor
mod_floor(a, p) == a % p

(***************************************************************************)
(* Results.  A call returns Ok(value), Err(error) or panics.               *)
(***************************************************************************)
Ok(v) == [st |-> "ok", val |-> v, err |-> <<>>]

Err(e) == [st |-> "err", val |-> None, err |-> e]

Panic(msg) == [st |-> "panic", val |-> None, err |-> <<msg>>]

IsOk(r) == r.st = "ok"

\* let x = v in e, written Let([x \in {v} |-> e]): v is computed once
Let(f) == f[CHOOSE x \in DOMAIN f : TRUE]

(***************************************************************************)
(* MaybeRelocatable arithmetic (types/relocatable.rs).                     *)
(***************************************************************************)
\* add_usize_mod(other, None)
add_usize(v, other) ==
    IF IsInt(v) THEN IntV(v[2] + other) ELSE RelV(v[2], v[3] + other)

\* add_usize_mod(other, Some(prime))
add_usize_mod(v, other, prime) ==
    IF IsInt(v) THEN IntV(Rem(v[2] + other, prime))
    ELSE RelV(v[2], (v[3] + other) % prime)

\* add_int_mod(other, prime): an address offset cannot become negative
add_int_mod(v, other, prime) ==
    IF IsInt(v) THEN Ok(IntV(Rem(v[2] + other, prime)))
    ELSE IF v[3] + other < 0 THEN Panic("Address offsets cant be negative")
    ELSE Ok(RelV(v[2], (v[3] + other) % prime))

\* add_mod(other, prime): Int + Int, Rel + Int, Int + Rel; never Rel + Rel
add_mod(v, other, prime) ==
    CASE IsInt(v) /\ IsInt(other) -> Ok(IntV(Rem(v[2] + other[2], prime)))
      [] IsRel(v) /\ IsRel(other) -> Err(<<"RelocatableAdd">>)
      [] IsRel(v) /\ IsInt(other) -> add_int_mod(v, other[2], prime)
      [] OTHER -> add_int_mod(other, v[2], prime)

\* sub(other): Int - Int, Rel - Rel of one segment, Rel - Int
sub(v, other) ==
    CASE IsInt(v) /\ IsInt(other) -> Ok(IntV(v[2] - other[2]))
      [] IsRel(v) /\ IsRel(other) ->
            IF v[2] = other[2] THEN Ok(IntV(v[3] - other[3]))
            ELSE Err(<<"DiffIndexSub">>)
      [] IsRel(v) /\ IsInt(other) ->
            IF v[3] - other[2] < 0 THEN Panic("Address offsets cant be negative")
            ELSE Ok(RelV(v[2], v[3] - other[2]))
      [] OTHER -> Err(<<"NotImplemented">>)

(***************************************************************************)
(* Memory (vm/vm_memory/memory.rs): a sparse insert-once store.  A memory  *)
(* is a function from the cells <<segment, offset>> that hold a value.     *)
(***************************************************************************)
Cell(addr) == <<addr[2], addr[3]>>

\* Memory::get: None for a cell that holds nothing
mem_get(mem, addr) ==
    IF IsRel(addr) /\ Cell(addr) \in DOMAIN mem THEN mem[Cell(addr)] ELSE None

\* the store after a successful insert
mem_put(mem, addr, val) ==
    [c \in DOMAIN mem \cup {Cell(addr)} |->
        IF c = Cell(addr) THEN val ELSE mem[c]]

\* Memory::insert: the result and the memory after the call
mem_insert(mem, nseg, addr, val) ==
    CASE ~IsRel(addr) ->
            [res |-> Err(<<"AddressNotRelocatable">>), mem |-> mem]
      [] IsRel(addr) /\ addr[2] >= nseg ->
            [res |-> Err(<<"UnallocatedSegment", addr[2], nseg>>), mem |-> mem]
      [] IsRel(addr) /\ addr[2] < nseg /\ Cell(addr) \in DOMAIN mem
           /\ mem[Cell(addr)] # val ->
            [res |-> Err(<<"InconsistentMemory", addr, mem[Cell(addr)], val>>),
             mem |-> mem]
      [] OTHER -> [res |-> Ok(None), mem |-> mem_put(mem, addr, val)]

\* Memory::get_integer
get_integer(mem, addr) ==
    IF IsInt(mem_get(mem, addr)) THEN Ok(mem_get(mem, addr))
    ELSE Err(<<"ExpectedInteger", addr>>)

\* Memory::get_relocatable
get_relocatable(mem, addr) ==
    IF IsRel(mem_get(mem, addr)) THEN Ok(mem_get(mem, addr))
    ELSE Err(<<"ExpectedRelocatable", addr>>)

(***************************************************************************)
(* Instruction (types/instruction.rs) and the decoder                      *)
(* (vm/decoding/decoder.rs).                                               *)
(***************************************************************************)
Bit(flags, k) == (flags \div (2 ^ k)) % 2

\* an offset is stored biased by 2^15
OffsetOf(digit) == digit - 32768

BiasOf(off) == off + 32768

\* Instruction::size
size(instr) == IF IsNone(instr.imm) THEN 1 ELSE 2

FlagsValid(f) ==
    /\ Bit(f, 2) + Bit(f, 3) + Bit(f, 4) <= 1
    /\ Bit(f, 5) + Bit(f, 6) <= 1
    /\ Bit(f, 7) + Bit(f, 8) + Bit(f, 9) <= 1
    /\ Bit(f, 10) + Bit(f, 11) <= 1
    /\ Bit(f, 12) + Bit(f, 13) + Bit(f, 14) <= 1
    /\ f < 32768

\* decode_instruction(encoded_instr, imm), on the digits of the word
decode_instruction(d, imm) ==
    LET f == d[4]
        op1_addr == CASE Bit(f, 2) = 1 -> "Imm"
                      [] Bit(f, 3) = 1 -> "FP"
                      [] Bit(f, 4) = 1 -> "AP"
                      [] OTHER -> "Op0"
        pc_update == CASE Bit(f, 7) = 1 -> "Jump"
                       [] Bit(f, 8) = 1 -> "JumpRel"
                       [] Bit(f, 9) = 1 -> "Jnz"
                       [] OTHER -> "Regular"
        opcode == CASE Bit(f, 12) = 1 -> "Call"
                    [] Bit(f, 13) = 1 -> "Ret"
                    [] Bit(f, 14) = 1 -> "AssertEq"
                    [] OTHER -> "NOp"
    IN  [off0 |-> OffsetOf(d[1]),
         off1 |-> OffsetOf(d[2]),
         off2 |-> OffsetOf(d[3]),
         imm |-> IF op1_addr = "Imm" THEN imm ELSE None,
         dst_register |-> IF Bit(f, 0) = 1 THEN "FP" ELSE "AP",
         op0_register |-> IF Bit(f, 1) = 1 THEN "FP" ELSE "AP",
         op1_addr |-> op1_addr,
         res |-> CASE Bit(f, 5) = 1 -> "Add"
                   [] Bit(f, 6) = 1 -> "Mul"
                   [] OTHER -> IF pc_update = "Jnz" THEN "Unconstrained"
                               ELSE "Op1",
         pc_update |-> pc_update,
         ap_update |-> CASE Bit(f, 10) = 1 -> "Add"
                         [] Bit(f, 11) = 1 -> "Add1"
                         [] OTHER -> IF opcode = "Call" THEN "Add2"
                                     ELSE "Regular",
         fp_update |-> CASE opcode = "Call" -> "APPlus2"
                         [] opcode = "Ret" -> "Dst"
                         [] OTHER -> "Regular",
         opcode |-> opcode]

(***************************************************************************)
(* RunContext (vm/context/run_context.rs): the operand addresses.          *)
(***************************************************************************)
RegOf(rc, reg) == IF reg = "AP" THEN rc.ap ELSE rc.fp

compute_dst_addr(rc, instr) ==
    add_int_mod(RegOf(rc, instr.dst_register), instr.off0, rc.prime)

compute_op0_addr(rc, instr) ==
    add_int_mod(RegOf(rc, instr.op0_register), instr.off1, rc.prime)

compute_op1_addr(rc, instr, op0) ==
    CASE instr.op1_addr = "FP" -> add_int_mod(rc.fp, instr.off2, rc.prime)
      [] instr.op1_addr = "AP" -> add_int_mod(rc.ap, instr.off2, rc.prime)
      [] instr.op1_addr = "Imm" ->
            IF instr.off2 = 1 THEN add_int_mod(rc.pc, instr.off2, rc.prime)
            ELSE Err(<<"ImmShouldBe1">>)
      [] OTHER ->
            IF IsNone(op0) THEN Err(<<"UnknownOp0">>)
            ELSE add_int_mod(op0, instr.off2, rc.prime)

(***************************************************************************)
(* VirtualMachine (vm/vm_core.rs).  rc is the run context                  *)
(* [pc, ap, fp, prime]; operands is [dst, res, op0, op1], res an Option.   *)
(***************************************************************************)
\* update_fp with a frame that starts one cell early
update_fp_ap_plus_1(rc, instr, operands) ==
    CASE instr.fp_update = "APPlus2" -> add_usize(rc.ap, 1)
      [] instr.fp_update = "Dst" -> operands.dst
      [] OTHER -> rc.fp

\* update_fp taking op1, not dst, for the frame pointer of a ret
update_fp_dst_as_op1(rc, instr, operands) ==
    CASE instr.fp_update = "APPlus2" -> add_usize(rc.ap, 2)
      [] instr.fp_update = "Dst" -> operands.op1
      [] OTHER -> rc.fp

update_fp(rc, instr, operands) ==
    CASE instr.fp_update = "APPlus2" -> add_usize(rc.ap, 2)
      [] instr.fp_update = "Dst" -> operands.dst
      [] OTHER -> rc.fp

\* update_ap with Add2 taken for Add1
update_ap_add2_as_add1(rc, instr, operands) ==
    CASE instr.ap_update = "Add" ->
            IF IsNone(operands.res) THEN Err(<<"UnconstrainedResAdd">>)
            ELSE add_mod(rc.ap, operands.res, rc.prime)
      [] instr.ap_update = "Add1" -> Ok(add_usize(rc.ap, 1))
      [] instr.ap_update = "Add2" -> Ok(add_usize(rc.ap, 1))
      [] OTHER -> Ok(rc.ap)

\* update_ap leaving ap where it is for Add1
update_ap_add1_as_regular(rc, instr, operands) ==
    CASE instr.ap_update = "Add" ->
            IF IsNone(operands.res) THEN Err(<<"UnconstrainedResAdd">>)
            ELSE add_mod(rc.ap, operands.res, rc.prime)
      [] instr.ap_update = "Add1" -> Ok(rc.ap)
      [] instr.ap_update = "Add2" -> Ok(add_usize(rc.ap, 2))
      [] OTHER -> Ok(rc.ap)

update_ap(rc, instr, operands) ==
    CASE instr.ap_update = "Add" ->
            IF IsNone(operands.res) THEN Err(<<"UnconstrainedResAdd">>)
            ELSE add_mod(rc.ap, operands.res, rc.prime)
      [] instr.ap_update = "Add1" -> Ok(add_usize(rc.ap, 1))
      [] instr.ap_update = "Add2" -> Ok(add_usize(rc.ap, 2))
      [] OTHER -> Ok(rc.ap)

\* Returns true if the value is zero; used for JNZ instructions
is_zero(v) ==
    IF IsInt(v) THEN Ok(v[2] = 0) ELSE Err(<<"PureValue">>)

\* update_pc with one fault: "size" takes every instruction to be one cell
\* long in Regular, "skip" does the same where Jnz falls through, and "rel"
\* jumps to a relocatable res of JumpRel
update_pc_with(rc, instr, operands, fault) ==
    CASE instr.pc_update = "Regular" ->
            Ok(add_usize_mod(rc.pc, IF fault = "size" THEN 1 ELSE size(instr),
                             rc.prime))
      [] instr.pc_update = "Jump" ->
            IF IsNone(operands.res) THEN Err(<<"UnconstrainedResJump">>)
            ELSE Ok(operands.res)
      [] instr.pc_update = "JumpRel" ->
            IF IsNone(operands.res) THEN Err(<<"UnconstrainedResJumpRel">>)
            ELSE IF IsInt(operands.res)
                 THEN add_int_mod(rc.pc, operands.res[2], rc.prime)
                 ELSE IF fault = "rel" THEN Ok(operands.res)
                 ELSE Err(<<"PureValue">>)
      [] OTHER ->
            LET z == is_zero(operands.dst)
            IN  IF ~IsOk(z) THEN z
                ELSE IF z.val
                     THEN Ok(add_usize(rc.pc, IF fault = "skip" THEN 1
                                              ELSE size(instr)))
                ELSE add_mod(rc.pc, operands.op1, rc.prime)

update_pc_size_1(rc, instr, operands) ==
    update_pc_with(rc, instr, operands, "size")

update_pc_jnz_skips_1(rc, instr, operands) ==
    update_pc_with(rc, instr, operands, "skip")

update_pc_jump_rel_to_address(rc, instr, operands) ==
    update_pc_with(rc, instr, operands, "rel")

update_pc(rc, instr, operands) ==
    CASE instr.pc_update = "Regular" ->
            Ok(add_usize_mod(rc.pc, size(instr), rc.prime))
      [] instr.pc_update = "Jump" ->
            IF IsNone(operands.res) THEN Err(<<"UnconstrainedResJump">>)
            ELSE Ok(operands.res)
      [] instr.pc_update = "JumpRel" ->
            IF IsNone(operands.res) THEN Err(<<"UnconstrainedResJumpRel">>)
            ELSE IF IsInt(operands.res)
                 THEN add_int_mod(rc.pc, operands.res[2], rc.prime)
                 ELSE Err(<<"PureValue">>)
      [] OTHER ->
            LET z == is_zero(operands.dst)
            IN  IF ~IsOk(z) THEN z
                ELSE IF z.val THEN Ok(add_usize(rc.pc, size(instr)))
                ELSE add_mod(rc.pc, operands.op1, rc.prime)

\* update_registers with ap updated before fp, so that fp is computed from
\* the ap the call has already moved
update_registers_ap_before_fp(rc, instr, operands) ==
    Let([a \in {update_ap(rc, instr, operands)} |->
        IF ~IsOk(a) THEN [res |-> a, rc |-> rc]
        ELSE
    Let([rc1 \in {[rc EXCEPT !.ap = a.val]} |->
    Let([rc2 \in {[rc1 EXCEPT !.fp = update_fp(rc1, instr, operands)]} |->
    Let([p \in {update_pc(rc2, instr, operands)} |->
        IF ~IsOk(p) THEN [res |-> p, rc |-> rc2]
        ELSE [res |-> Ok(None), rc |-> [rc2 EXCEPT !.pc = p.val]]])])])])

\* update_fp, then update_ap?, then update_pc?: the result and the run
\* context the call leaves behind
update_registers(rc, instr, operands) ==
    Let([rc1 \in {[rc EXCEPT !.fp = update_fp(rc, instr, operands)]} |->
    Let([a \in {update_ap(rc1, instr, operands)} |->
        IF ~IsOk(a) THEN [res |-> a, rc |-> rc1]
        ELSE
    Let([rc2 \in {[rc1 EXCEPT !.ap = a.val]} |->
    Let([p \in {update_pc(rc2, instr, operands)} |->
        IF ~IsOk(p) THEN [res |-> p, rc |-> rc2]
        ELSE [res |-> Ok(None), rc |-> [rc2 EXCEPT !.pc = p.val]]])])])])

\* the pair (deduced operand, deduced res) of deduce_op0 and deduce_op1
Ded(op, res) == Ok(<<op, res>>)

\* deduce_op0 giving a call the pc of the call itself to return to
deduce_op0_call_returns_to_call(rc, instr, dst, op1) ==
    CASE instr.opcode = "Call" -> Ded(rc.pc, None)
      [] instr.opcode = "AssertEq" /\ instr.res = "Add"
           /\ ~IsNone(dst) /\ ~IsNone(op1) ->
            LET d == sub(dst, op1)
            IN  IF IsOk(d) THEN Ded(d.val, dst) ELSE d
      [] instr.opcode = "AssertEq" /\ instr.res = "Mul"
           /\ IsInt(dst) /\ IsInt(op1) /\ op1[2] # 0 ->
            Ded(IntV(Rem(Quot(dst[2], op1[2]), rc.prime)), dst)
      [] OTHER -> Ded(None, None)

deduce_op0(rc, instr, dst, op1) ==
    CASE instr.opcode = "Call" -> Ded(add_usize(rc.pc, size(instr)), None)
      [] instr.opcode = "AssertEq" /\ instr.res = "Add"
           /\ ~IsNone(dst) /\ ~IsNone(op1) ->
            LET d == sub(dst, op1)
            IN  IF IsOk(d) THEN Ded(d.val, dst) ELSE d
      [] instr.opcode = "AssertEq" /\ instr.res = "Mul"
           /\ IsInt(dst) /\ IsInt(op1) /\ op1[2] # 0 ->
            Ded(IntV(Rem(Quot(dst[2], op1[2]), rc.prime)), dst)
      [] OTHER -> Ded(None, None)

\* deduce_op1 making an error of a zero divisor
deduce_op1_zero_divisor_error(rc, instr, dst, op0) ==
    CASE instr.opcode = "AssertEq" /\ instr.res = "Op1" /\ ~IsNone(dst) ->
            Ded(dst, dst)
      [] instr.opcode = "AssertEq" /\ instr.res = "Add"
           /\ ~IsNone(dst) /\ ~IsNone(op0) ->
            LET d == sub(dst, op0)
            IN  IF IsOk(d) THEN Ded(d.val, dst) ELSE d
      [] instr.opcode = "AssertEq" /\ instr.res = "Mul"
           /\ IsInt(dst) /\ IsInt(op0) ->
            IF op0[2] = 0 THEN Err(<<"DividedByZero">>)
            ELSE Ded(IntV(Rem(Quot(dst[2], op0[2]), rc.prime)), dst)
      [] OTHER -> Ded(None, None)

deduce_op1(rc, instr, dst, op0) ==
    CASE instr.opcode = "AssertEq" /\ instr.res = "Op1" /\ ~IsNone(dst) ->
            Ded(dst, dst)
      [] instr.opcode = "AssertEq" /\ instr.res = "Add"
           /\ ~IsNone(dst) /\ ~IsNone(op0) ->
            LET d == sub(dst, op0)
            IN  IF IsOk(d) THEN Ded(d.val, dst) ELSE d
      [] instr.opcode = "AssertEq" /\ instr.res = "Mul"
           /\ IsInt(dst) /\ IsInt(op0) /\ op0[2] # 0 ->
            Ded(IntV(Rem(Quot(dst[2], op0[2]), rc.prime)), dst)
      [] OTHER -> Ded(None, None)

\* Computes the value of res if possible
compute_res(rc, instr, op0, op1) ==
    CASE instr.res = "Op1" -> Ok(op1)
      [] instr.res = "Add" -> add_mod(op0, op1, rc.prime)
      [] instr.res = "Mul" ->
            IF IsInt(op0) /\ IsInt(op1)
            THEN Ok(IntV(Rem(op0[2] * op1[2], rc.prime)))
            ELSE Err(<<"PureValue">>)
      [] OTHER -> Ok(None)

deduce_dst(rc, instr, res) ==
    CASE instr.opcode = "AssertEq" /\ ~IsNone(res) -> res
      [] instr.opcode = "Call" -> rc.fp
      [] OTHER -> None

\* the panics of opcode_assertions: "ok" when it returns
opcode_assertions(rc, instr, operands) ==
    CASE instr.opcode = "AssertEq" /\ IsNone(operands.res) ->
            Panic("Res.UNCONSTRAINED cannot be used with Opcode.ASSERT_EQ")
      [] instr.opcode = "AssertEq" /\ ~IsNone(operands.res)
           /\ IsInt(operands.res) /\ IsInt(operands.dst)
           /\ operands.res # operands.dst ->
            Panic("An ASSERT_EQ instruction failed")
      [] instr.opcode = "Call" /\ IsInt(operands.op0) /\ IsInt(rc.pc)
           /\ operands.op0[2] # rc.pc[2] + size(instr) ->
            Panic("Call failed to write return-pc (inconsistent op0)")
      [] instr.opcode = "Call" /\ IsInt(rc.fp) /\ IsInt(operands.dst)
           /\ operands.dst # rc.fp ->
            Panic("Call failed to write return-fp (inconsistent dst)")
      [] OTHER -> Ok(None)

\* the three write-backs of compute_operands, in the order dst, op0, op1;
\* the value memory.insert returns is dropped by the caller
WriteBack(mem, nseg, todo) ==
    Let([w1 \in {IF todo[1][1] THEN mem_insert(mem, nseg, todo[1][2], todo[1][3])
         ELSE [res |-> Ok(None), mem |-> mem]} |->
    Let([w2 \in {IF todo[2][1] THEN mem_insert(w1.mem, nseg, todo[2][2], todo[2][3])
         ELSE [res |-> Ok(None), mem |-> w1.mem]} |->
    Let([w3 \in {IF todo[3][1] THEN mem_insert(w2.mem, nseg, todo[3][2], todo[3][3])
         ELSE [res |-> Ok(None), mem |-> w2.mem]} |->
    Let([made \in {SelectSeq(<<<<todo[1], w1.res>>, <<todo[2], w2.res>>,
                     <<todo[3], w3.res>>>>,
                   LAMBDA x : x[1][1])} |->
        [mem |-> w3.mem,
         inserts |-> [i \in 1..Len(made) |->
                         <<made[i][1][2], made[i][1][3], made[i][2]>>]]])])])])

NoOperands == [dst |-> None, res |-> None, op0 |-> None, op1 |-> None]

\* what compute_operands gives back when it does not return Ok
Fail(r, mem, read) ==
    [res |-> r, operands |-> NoOperands, addrs |-> <<>>, mem |-> mem,
     inserts |-> <<>>, read |-> read]

\* Compute operands and result, trying to deduce them if normal memory
\* access returns a None value.
compute_operands(mem, nseg, rc, instr) ==
    Let([dst_addr \in {compute_dst_addr(rc, instr)} |->
    Let([dst \in {mem_get(mem, dst_addr.val)} |->
    Let([op0_addr \in {compute_op0_addr(rc, instr)} |->
    Let([op0 \in {mem_get(mem, op0_addr.val)} |->
    Let([op1_addr \in {compute_op1_addr(rc, instr, op0)} |->
    Let([op1 \in {mem_get(mem, op1_addr.val)} |->
    Let([rd \in {<<dst, op0, op1>>} |->
        CASE ~IsOk(dst_addr) -> Fail(dst_addr, mem, rd)
          [] IsOk(dst_addr) /\ ~IsRel(dst_addr.val) ->
                Fail(Panic("Memory addresses must be relocatable"), mem, rd)
          [] IsOk(dst_addr) /\ IsRel(dst_addr.val) /\ ~IsOk(op0_addr) ->
                Fail(op0_addr, mem, rd)
          [] IsOk(dst_addr) /\ IsRel(dst_addr.val) /\ IsOk(op0_addr)
               /\ ~IsRel(op0_addr.val) ->
                Fail(Panic("Memory addresses must be relocatable"), mem, rd)
          [] IsOk(dst_addr) /\ IsRel(dst_addr.val) /\ IsOk(op0_addr)
               /\ IsRel(op0_addr.val) /\ ~IsOk(op1_addr) ->
                Fail(op1_addr, mem, rd)
          [] IsOk(dst_addr) /\ IsRel(dst_addr.val) /\ IsOk(op0_addr)
               /\ IsRel(op0_addr.val) /\ IsOk(op1_addr)
               /\ ~IsRel(op1_addr.val) ->
                Fail(Panic("Memory addresses must be relocatable"), mem, rd)
          [] OTHER ->
    Let([d0 \in {IF IsNone(op0) THEN deduce_op0(rc, instr, dst, op1)
         ELSE Ded(op0, None)} |->
        IF ~IsOk(d0) THEN Fail(d0, mem, rd) ELSE
    Let([op0b \in {d0.val[1]} |->
    Let([d1 \in {IF IsNone(op1) THEN deduce_op1(rc, instr, dst, op0b)
         ELSE Ded(op1, None)} |->
        IF ~IsOk(d1) THEN Fail(d1, mem, rd) ELSE
    Let([op1b \in {d1.val[1]} |->
    Let([resb \in {IF IsNone(op1) /\ IsNone(d0.val[2]) THEN d1.val[2] ELSE d0.val[2]} |->
        CASE IsNone(op0b) ->
                Fail(Panic("Couldn't compute or deduce op0"), mem, rd)
          [] ~IsNone(op0b) /\ IsNone(op1b) ->
                Fail(Panic("Couldn't compute or deduce op1"), mem, rd)
          [] OTHER ->
    Let([cr \in {IF IsNone(resb) THEN compute_res(rc, instr, op0b, op1b)
         ELSE Ok(resb)} |->
        IF ~IsOk(cr) THEN Fail(cr, mem, rd) ELSE
    Let([res \in {cr.val} |->
    Let([dstb \in {CASE ~IsNone(dst) -> dst
           [] IsNone(dst) /\ instr.opcode = "AssertEq" /\ ~IsNone(res) -> res
           [] IsNone(dst) /\ instr.opcode = "Call" -> rc.fp
           [] OTHER -> None} |->
        IF IsNone(dstb)
        THEN Fail(Panic("Couldn't get or load dst"), mem, rd) ELSE
    Let([wb \in {WriteBack(mem, nseg,
                   <<<<IsNone(dst), dst_addr.val, dstb>>,
                     <<IsNone(op0), op0_addr.val, op0b>>,
                     <<IsNone(op1), op1_addr.val, op1b>>>>)} |->
        [res |-> Ok(None),
         operands |-> [dst |-> dstb, res |-> res, op0 |-> op0b, op1 |-> op1b],
         addrs |-> <<dst_addr.val, op0_addr.val, op1_addr.val>>,
         mem |-> wb.mem,
         inserts |-> wb.inserts,
         read |-> rd]])])])])])])])])])])])])])])])])

\* accessed_addresses.push(addr) unless the vector contains addr
\* the push without the look for the address among those recorded
PushNew_unconditional(acc, addr) == Append(acc, addr)

PushNew(acc, addr) ==
    IF \E i \in 1..Len(acc) : acc[i] = addr THEN acc ELSE Append(acc, addr)

\* the loop of run_instruction over the operand addresses, then the pc
record_accessed(acc, addrs, pc) ==
    PushNew(PushNew(PushNew(PushNew(acc, addrs[1]), addrs[2]), addrs[3]), pc)

\* a trace entry that records ap where fp belongs
TraceEntry_ap_for_fp(rc) == [pc |-> rc.pc, ap |-> rc.ap, fp |-> rc.ap]

TraceEntry(rc) == [pc |-> rc.pc, ap |-> rc.ap, fp |-> rc.fp]

\* what a call of step or run_instruction leaves behind: the result, the
\* machine, and the instruction, operands and inserts it went through
Outcome(r, vm, instr, co) ==
    [res |-> r, vm |-> vm, instr |-> instr, operands |-> co.operands,
     addrs |-> co.addrs, inserts |-> co.inserts, read |-> co.read]

\* run_instruction that pushes the trace entry and the accessed addresses
\* before it runs the opcode assertions
run_instruction_trace_before_assertions(vm, instr) ==
    Let([co \in {compute_operands(vm.memory, vm.num_segments, vm.rc, instr)} |->
        IF ~IsOk(co.res) THEN Outcome(co.res, vm, instr, co) ELSE
    Let([vm2 \in {[vm EXCEPT
            !.memory = co.mem,
            !.trace = Append(vm.trace, TraceEntry(vm.rc)),
            !.accessed_addresses =
                record_accessed(vm.accessed_addresses, co.addrs, vm.rc.pc)]} |->
    Let([oa \in {opcode_assertions(vm.rc, instr, co.operands)} |->
        IF ~IsOk(oa) THEN Outcome(oa, vm2, instr, co) ELSE
    Let([ur \in {update_registers(vm.rc, instr, co.operands)} |->
    Let([vm3 \in {[vm2 EXCEPT !.rc = ur.rc]} |->
        IF ~IsOk(ur.res) THEN Outcome(ur.res, vm3, instr, co)
        ELSE Outcome(Ok(None),
                     [vm3 EXCEPT !.current_step = vm.current_step + 1],
                     instr, co)])])])])])

\* vm is [rc, memory, num_segments, trace, accessed_addresses, current_step]
run_instruction(vm, instr) ==
    Let([co \in {compute_operands(vm.memory, vm.num_segments, vm.rc, instr)} |->
        IF ~IsOk(co.res) THEN Outcome(co.res, vm, instr, co) ELSE
    Let([vm1 \in {[vm EXCEPT !.memory = co.mem]} |->
    Let([oa \in {opcode_assertions(vm.rc, instr, co.operands)} |->
        IF ~IsOk(oa) THEN Outcome(oa, vm1, instr, co) ELSE
    Let([vm2 \in {[vm1 EXCEPT
            !.trace = Append(vm.trace, TraceEntry(vm.rc)),
            !.accessed_addresses =
                record_accessed(vm.accessed_addresses, co.addrs, vm.rc.pc)]} |->
    Let([ur \in {update_registers(vm.rc, instr, co.operands)} |->
    Let([vm3 \in {[vm2 EXCEPT !.rc = ur.rc]} |->
        IF ~IsOk(ur.res) THEN Outcome(ur.res, vm3, instr, co)
        ELSE Outcome(Ok(None),
                     [vm3 EXCEPT !.current_step = vm.current_step + 1],
                     instr, co)])])])])])])

NoInstr == [opcode |-> "none"]

\* Returns the encoded instruction (the value at pc) and the immediate
\* value (the value at pc + 1, if it exists in the memory).
get_instruction_encoding(vm) ==
    IF IsInt(mem_get(vm.memory, vm.rc.pc))
    THEN Ok(<<mem_get(vm.memory, vm.rc.pc),
              mem_get(vm.memory, add_usize(vm.rc.pc, 1))>>)
    ELSE Err(<<"InvalidInstructionEncoding">>)

decode_current_instruction(vm) ==
    IF ~IsRel(vm.rc.pc) THEN Panic("Memory addresses must be relocatable") ELSE
    Let([e \in {get_instruction_encoding(vm)} |->
        IF ~IsOk(e) THEN e ELSE
    Let([d \in {Digits(e.val[1])} |->
        IF ~FlagsValid(d[4]) THEN Panic("invalid instruction flags")
        ELSE Ok(decode_instruction(d, IF IsInt(e.val[2]) THEN e.val[2]
                                      ELSE None))])])

step(vm) ==
    Let([i \in {decode_current_instruction(vm)} |->
        IF ~IsOk(i) THEN Outcome(i, vm, NoInstr, Fail(i, vm.memory, <<>>)) ELSE
    Let([instruction \in {i.val} |-> run_instruction(vm, instruction)])])

(***************************************************************************)
(* The hint side.  hs is what the VM proxy hands to a hint:                *)
(* [rc, memory, num_segments, trackers, scopes].  trackers maps a segment  *)
(* index to its DictTracker [current_ptr, is_default, default, data];      *)
(* scopes is the stack of execution scopes, each a function from the       *)
(* names of its variables to their values.                                 *)
(***************************************************************************)
\* DictAccess struct has three members, so the size of DictAccess* is 3
DICT_ACCESS_SIZE == 3

\* what a hint leaves behind: its result, the proxy state, and the memory
\* inserts it made, each <<address, value, result>>
HintOut(r, hs, inserts) == [res |-> r, hs |-> hs, inserts |-> inserts]

\* ids maps a variable name to its reference [register, offset1]; the
\* address of the variable, or FailedToGetIds (hint_utils.rs)
var_addr(hs, ids, name) ==
    IF name \notin DOMAIN ids THEN Err(<<"FailedToGetIds">>)
    ELSE LET base == RegOf(hs.rc, ids[name].register)
         IN  IF ~IsRel(base) \/ base[3] + ids[name].offset1 < 0
             THEN Err(<<"FailedToGetIds">>)
             ELSE Ok(RelV(base[2], base[3] + ids[name].offset1))

get_integer_from_var_name(hs, ids, name) ==
    Let([a \in {var_addr(hs, ids, name)} |->
        IF IsOk(a) THEN get_integer(hs.memory, a.val) ELSE a])

get_ptr_from_var_name(hs, ids, name) ==
    Let([a \in {var_addr(hs, ids, name)} |->
        IF IsOk(a) THEN get_relocatable(hs.memory, a.val) ELSE a])

get_relocatable_from_var_name(hs, ids, name) == var_addr(hs, ids, name)

\* Memory::insert_value as a hint sees it: the result, the memory and the
\* insert made
hint_insert(hs, addr, val) ==
    Let([w \in {mem_insert(hs.memory, hs.num_segments, addr, val)} |->
        [res |-> w.res, mem |-> w.mem, inserts |-> <<<<addr, val, w.res>>>>]])

insert_value_from_var_name(hs, ids, name, val) ==
    Let([a \in {var_addr(hs, ids, name)} |->
        IF IsOk(a) THEN hint_insert(hs, a.val, val)
        ELSE [res |-> a, mem |-> hs.memory, inserts |-> <<>>]])

insert_value_into_ap(hs, val) == hint_insert(hs, hs.rc.ap, val)

\* ExecutionScopes::get_local_variables and the initial_dict in it
NoDict == <<"NoDict">>

copy_initial_dict(scopes) ==
    IF Len(scopes) > 0 /\ "initial_dict" \in DOMAIN scopes[Len(scopes)]
    THEN scopes[Len(scopes)]["initial_dict"]
    ELSE NoDict

\* DictManager::new_dict and new_default_dict: a fresh segment and its
\* tracker (dict_manager.rs, segments.add)
Tracker(ptr, is_default, default, data) ==
    [current_ptr |-> ptr, is_default |-> is_default, default |-> default,
     data |-> data]

EmptyDict == [k \in {} |-> 0]

new_tracker(hs, tracker_of_base) ==
    LET base == RelV(hs.num_segments, 0)
    IN  [base |-> base,
         hs |-> [hs EXCEPT
                   !.num_segments = hs.num_segments + 1,
                   !.trackers = [g \in DOMAIN hs.trackers \cup {base[2]} |->
                                    IF g = base[2] THEN tracker_of_base
                                    ELSE hs.trackers[g]]]]

new_dict(hs, initial_dict) ==
    new_tracker(hs, Tracker(RelV(hs.num_segments, 0), FALSE, 0, initial_dict))

new_default_dict(hs, default_value, initial_dict) ==
    new_tracker(hs, Tracker(RelV(hs.num_segments, 0), TRUE, default_value,
                            IF initial_dict = NoDict THEN EmptyDict
                            ELSE initial_dict))

\* DictManager::get_tracker: the segment of the tracker, or the error
get_tracker(hs, dict_ptr) ==
    CASE dict_ptr[2] \notin DOMAIN hs.trackers ->
            Err(<<"NoDictTracker", dict_ptr[2]>>)
      [] dict_ptr[2] \in DOMAIN hs.trackers
           /\ hs.trackers[dict_ptr[2]].current_ptr # dict_ptr ->
            Err(<<"MismatchedDictPtr", hs.trackers[dict_ptr[2]].current_ptr,
                  dict_ptr>>)
      [] OTHER -> Ok(dict_ptr[2])

\* DictTracker::get_value
get_value(tracker, key) ==
    CASE key \in DOMAIN tracker.data -> Ok(tracker.data[key])
      [] key \notin DOMAIN tracker.data /\ tracker.is_default ->
            Ok(tracker.default)
      [] OTHER -> Err(<<"NoValueForKey", key>>)

\* DictTracker::insert_value
insert_value(tracker, key, val) ==
    [tracker EXCEPT !.data = [k \in DOMAIN tracker.data \cup {key} |->
                                 IF k = key THEN val ELSE tracker.data[k]]]

\* a tracker that moves on by one cell an access
advance_by_1(tracker) ==
    [tracker EXCEPT !.current_ptr =
        RelV(tracker.current_ptr[2], tracker.current_ptr[3] + 1)]

\* tracker.current_ptr.offset += DICT_ACCESS_SIZE
advance(tracker) ==
    [tracker EXCEPT !.current_ptr =
        RelV(tracker.current_ptr[2], tracker.current_ptr[3] + DICT_ACCESS_SIZE)]

(***************************************************************************)
(* The hints of vm/hints/dict_hint_utils.rs and vm/hints/pow_utils.rs.     *)
(***************************************************************************)
SetTracker(hs, seg, tracker) ==
    [hs EXCEPT !.trackers = [hs.trackers EXCEPT ![seg] = tracker]]

\* dict_new that drops the result of its insert, as the write-backs do
dict_new_dropping_insert(hs) ==
    Let([initial_dict \in {copy_initial_dict(hs.scopes)} |->
        IF initial_dict = NoDict
        THEN HintOut(Err(<<"NoInitialDict">>), hs, <<>>) ELSE
    Let([nd \in {new_dict(hs, initial_dict)} |->
    Let([w \in {insert_value_into_ap(nd.hs, nd.base)} |->
        HintOut(Ok(None), [nd.hs EXCEPT !.memory = w.mem], w.inserts)])])])

\* dict_new that starts from an empty dictionary when the scope has no
\* initial_dict
dict_new_empty_when_none(hs) ==
    Let([initial_dict \in {copy_initial_dict(hs.scopes)} |->
    Let([nd \in {new_dict(hs, IF initial_dict = NoDict THEN EmptyDict
                              ELSE initial_dict)} |->
    Let([w \in {insert_value_into_ap(nd.hs, nd.base)} |->
        HintOut(w.res, [nd.hs EXCEPT !.memory = w.mem], w.inserts)])])])

\* dict_new that moves ap past the cell it has written
dict_new_moving_ap(hs) ==
    Let([initial_dict \in {copy_initial_dict(hs.scopes)} |->
        IF initial_dict = NoDict
        THEN HintOut(Err(<<"NoInitialDict">>), hs, <<>>) ELSE
    Let([nd \in {new_dict(hs, initial_dict)} |->
    Let([w \in {insert_value_into_ap(nd.hs, nd.base)} |->
        HintOut(w.res,
                [nd.hs EXCEPT !.memory = w.mem,
                              !.rc.ap = add_usize(hs.rc.ap, 1)],
                w.inserts)])])])

\* memory[ap] = __dict_manager.new_dict(segments, initial_dict)
dict_new(hs) ==
    Let([initial_dict \in {copy_initial_dict(hs.scopes)} |->
        IF initial_dict = NoDict
        THEN HintOut(Err(<<"NoInitialDict">>), hs, <<>>) ELSE
    Let([nd \in {new_dict(hs, initial_dict)} |->
    Let([w \in {insert_value_into_ap(nd.hs, nd.base)} |->
        HintOut(w.res, [nd.hs EXCEPT !.memory = w.mem], w.inserts)])])])

\* default_dict_new that makes the tracker new_dict makes
default_dict_new_as_dict_new(hs, ids) ==
    Let([default_value \in {get_integer_from_var_name(hs, ids, "default_value")} |->
        IF ~IsOk(default_value) THEN HintOut(default_value, hs, <<>>) ELSE
    Let([initial_dict \in {copy_initial_dict(hs.scopes)} |->
    Let([nd \in {new_dict(hs, IF initial_dict = NoDict THEN EmptyDict
                              ELSE initial_dict)} |->
    Let([w \in {insert_value_into_ap(nd.hs, nd.base)} |->
        HintOut(w.res, [nd.hs EXCEPT !.memory = w.mem], w.inserts)])])])])

\* memory[ap] = __dict_manager.new_default_dict(segments, ids.default_value)
default_dict_new(hs, ids) ==
    Let([default_value \in {get_integer_from_var_name(hs, ids, "default_value")} |->
        IF ~IsOk(default_value) THEN HintOut(default_value, hs, <<>>) ELSE
    Let([initial_dict \in {copy_initial_dict(hs.scopes)} |->
    Let([nd \in {new_default_dict(hs, default_value.val[2], initial_dict)} |->
    Let([w \in {insert_value_into_ap(nd.hs, nd.base)} |->
        HintOut(w.res, [nd.hs EXCEPT !.memory = w.mem], w.inserts)])])])])

\* dict_read that stores the value it read under the key, so that a
\* Default tracker keeps its default for a key it had not stored
dict_read_keeping_value(hs, ids) ==
    Let([key \in {get_integer_from_var_name(hs, ids, "key")} |->
        IF ~IsOk(key) THEN HintOut(key, hs, <<>>) ELSE
    Let([dict_ptr \in {get_ptr_from_var_name(hs, ids, "dict_ptr")} |->
        IF ~IsOk(dict_ptr) THEN HintOut(dict_ptr, hs, <<>>) ELSE
    Let([t \in {get_tracker(hs, dict_ptr.val)} |->
        IF ~IsOk(t) THEN HintOut(t, hs, <<>>) ELSE
    Let([tracker \in {advance(hs.trackers[t.val])} |->
    Let([value \in {get_value(tracker, key.val[2])} |->
        IF ~IsOk(value) THEN HintOut(value, SetTracker(hs, t.val, tracker), <<>>) ELSE
    Let([hs1 \in {SetTracker(hs, t.val,
                    insert_value(tracker, key.val[2], value.val))} |->
    Let([w \in {insert_value_from_var_name(hs1, ids, "value", IntV(value.val))} |->
        HintOut(w.res, [hs1 EXCEPT !.memory = w.mem], w.inserts)])])])])])])])

\* dict_write that stores the new value at dict_ptr + 1
dict_write_storing_new_value(hs, ids) ==
    Let([key \in {get_integer_from_var_name(hs, ids, "key")} |->
        IF ~IsOk(key) THEN HintOut(key, hs, <<>>) ELSE
    Let([new_value \in {get_integer_from_var_name(hs, ids, "new_value")} |->
        IF ~IsOk(new_value) THEN HintOut(new_value, hs, <<>>) ELSE
    Let([dict_ptr \in {get_ptr_from_var_name(hs, ids, "dict_ptr")} |->
        IF ~IsOk(dict_ptr) THEN HintOut(dict_ptr, hs, <<>>) ELSE
    Let([t \in {get_tracker(hs, dict_ptr.val)} |->
        IF ~IsOk(t) THEN HintOut(t, hs, <<>>) ELSE
    Let([dict_ptr_prev_value \in {add_usize(dict_ptr.val, 1)} |->
    Let([tracker \in {advance(hs.trackers[t.val])} |->
    Let([hs1 \in {SetTracker(hs, t.val, tracker)} |->
    Let([prev_value \in {get_value(tracker, key.val[2])} |->
        IF ~IsOk(prev_value) THEN HintOut(prev_value, hs1, <<>>) ELSE
    Let([hs2 \in {SetTracker(hs, t.val,
                    insert_value(tracker, key.val[2], new_value.val[2]))} |->
    Let([w \in {hint_insert(hs2, dict_ptr_prev_value, new_value.val)} |->
        HintOut(w.res, [hs2 EXCEPT !.memory = w.mem], w.inserts)])])])])])])])])])])

\* dict_tracker.current_ptr += ids.DictAccess.SIZE
\* ids.value = dict_tracker.data[ids.key]
dict_read(hs, ids) ==
    Let([key \in {get_integer_from_var_name(hs, ids, "key")} |->
        IF ~IsOk(key) THEN HintOut(key, hs, <<>>) ELSE
    Let([dict_ptr \in {get_ptr_from_var_name(hs, ids, "dict_ptr")} |->
        IF ~IsOk(dict_ptr) THEN HintOut(dict_ptr, hs, <<>>) ELSE
    Let([t \in {get_tracker(hs, dict_ptr.val)} |->
        IF ~IsOk(t) THEN HintOut(t, hs, <<>>) ELSE
    Let([tracker \in {advance(hs.trackers[t.val])} |->
    Let([hs1 \in {SetTracker(hs, t.val, tracker)} |->
    Let([value \in {get_value(tracker, key.val[2])} |->
        IF ~IsOk(value) THEN HintOut(value, hs1, <<>>) ELSE
    Let([w \in {insert_value_from_var_name(hs1, ids, "value", IntV(value.val))} |->
        HintOut(w.res, [hs1 EXCEPT !.memory = w.mem], w.inserts)])])])])])])])

\* dict_tracker.current_ptr += ids.DictAccess.SIZE
\* ids.dict_ptr.prev_value = dict_tracker.data[ids.key]
\* dict_tracker.data[ids.key] = ids.new_value
dict_write(hs, ids) ==
    Let([key \in {get_integer_from_var_name(hs, ids, "key")} |->
        IF ~IsOk(key) THEN HintOut(key, hs, <<>>) ELSE
    Let([new_value \in {get_integer_from_var_name(hs, ids, "new_value")} |->
        IF ~IsOk(new_value) THEN HintOut(new_value, hs, <<>>) ELSE
    Let([dict_ptr \in {get_ptr_from_var_name(hs, ids, "dict_ptr")} |->
        IF ~IsOk(dict_ptr) THEN HintOut(dict_ptr, hs, <<>>) ELSE
    Let([t \in {get_tracker(hs, dict_ptr.val)} |->
        IF ~IsOk(t) THEN HintOut(t, hs, <<>>) ELSE
    Let([dict_ptr_prev_value \in {add_usize(dict_ptr.val, 1)} |->
    Let([tracker \in {advance(hs.trackers[t.val])} |->
    Let([hs1 \in {SetTracker(hs, t.val, tracker)} |->
    Let([prev_value \in {get_value(tracker, key.val[2])} |->
        IF ~IsOk(prev_value) THEN HintOut(prev_value, hs1, <<>>) ELSE
    Let([hs2 \in {SetTracker(hs, t.val,
                    insert_value(tracker, key.val[2], new_value.val[2]))} |->
    Let([w \in {hint_insert(hs2, dict_ptr_prev_value, IntV(prev_value.val))} |->
        HintOut(w.res, [hs2 EXCEPT !.memory = w.mem], w.inserts)])])])])])])])])])])

\* dict_update that leaves current_ptr where it was
dict_update_keeping_ptr(hs, ids) ==
    Let([key \in {get_integer_from_var_name(hs, ids, "key")} |->
        IF ~IsOk(key) THEN HintOut(key, hs, <<>>) ELSE
    Let([prev_value \in {get_integer_from_var_name(hs, ids, "prev_value")} |->
        IF ~IsOk(prev_value) THEN HintOut(prev_value, hs, <<>>) ELSE
    Let([new_value \in {get_integer_from_var_name(hs, ids, "new_value")} |->
        IF ~IsOk(new_value) THEN HintOut(new_value, hs, <<>>) ELSE
    Let([dict_ptr \in {get_ptr_from_var_name(hs, ids, "dict_ptr")} |->
        IF ~IsOk(dict_ptr) THEN HintOut(dict_ptr, hs, <<>>) ELSE
    Let([t \in {get_tracker(hs, dict_ptr.val)} |->
        IF ~IsOk(t) THEN HintOut(t, hs, <<>>) ELSE
    Let([tracker \in {hs.trackers[t.val]} |->
    Let([current_value \in {get_value(tracker, key.val[2])} |->
        CASE ~IsOk(current_value) -> HintOut(current_value, hs, <<>>)
          [] IsOk(current_value) /\ current_value.val # prev_value.val[2] ->
                HintOut(Err(<<"WrongPrevValue", prev_value.val[2],
                              current_value.val, key.val[2]>>), hs, <<>>)
          [] OTHER ->
                HintOut(Ok(None),
                        SetTracker(hs, t.val,
                                   insert_value(tracker, key.val[2],
                                                new_value.val[2])),
                        <<>>)])])])])])])])

\* dict_update that updates the tracker before it compares prev_value
dict_update_before_check(hs, ids) ==
    Let([key \in {get_integer_from_var_name(hs, ids, "key")} |->
        IF ~IsOk(key) THEN HintOut(key, hs, <<>>) ELSE
    Let([prev_value \in {get_integer_from_var_name(hs, ids, "prev_value")} |->
        IF ~IsOk(prev_value) THEN HintOut(prev_value, hs, <<>>) ELSE
    Let([new_value \in {get_integer_from_var_name(hs, ids, "new_value")} |->
        IF ~IsOk(new_value) THEN HintOut(new_value, hs, <<>>) ELSE
    Let([dict_ptr \in {get_ptr_from_var_name(hs, ids, "dict_ptr")} |->
        IF ~IsOk(dict_ptr) THEN HintOut(dict_ptr, hs, <<>>) ELSE
    Let([t \in {get_tracker(hs, dict_ptr.val)} |->
        IF ~IsOk(t) THEN HintOut(t, hs, <<>>) ELSE
    Let([tracker \in {hs.trackers[t.val]} |->
    Let([current_value \in {get_value(tracker, key.val[2])} |->
    Let([hs1 \in {SetTracker(hs, t.val,
                    advance(insert_value(tracker, key.val[2],
                                         new_value.val[2])))} |->
        CASE ~IsOk(current_value) -> HintOut(current_value, hs, <<>>)
          [] IsOk(current_value) /\ current_value.val # prev_value.val[2] ->
                HintOut(Err(<<"WrongPrevValue", prev_value.val[2],
                              current_value.val, key.val[2]>>), hs1, <<>>)
          [] OTHER -> HintOut(Ok(None), hs1, <<>>)])])])])])])])])

\* current_value = dict_tracker.data[ids.key]
\* assert current_value == ids.prev_value
\* dict_tracker.data[ids.key] = ids.new_value
\* dict_tracker.current_ptr += ids.DictAccess.SIZE
dict_update(hs, ids) ==
    Let([key \in {get_integer_from_var_name(hs, ids, "key")} |->
        IF ~IsOk(key) THEN HintOut(key, hs, <<>>) ELSE
    Let([prev_value \in {get_integer_from_var_name(hs, ids, "prev_value")} |->
        IF ~IsOk(prev_value) THEN HintOut(prev_value, hs, <<>>) ELSE
    Let([new_value \in {get_integer_from_var_name(hs, ids, "new_value")} |->
        IF ~IsOk(new_value) THEN HintOut(new_value, hs, <<>>) ELSE
    Let([dict_ptr \in {get_ptr_from_var_name(hs, ids, "dict_ptr")} |->
        IF ~IsOk(dict_ptr) THEN HintOut(dict_ptr, hs, <<>>) ELSE
    Let([t \in {get_tracker(hs, dict_ptr.val)} |->
        IF ~IsOk(t) THEN HintOut(t, hs, <<>>) ELSE
    Let([tracker \in {hs.trackers[t.val]} |->
    Let([current_value \in {get_value(tracker, key.val[2])} |->
        CASE ~IsOk(current_value) -> HintOut(current_value, hs, <<>>)
          [] IsOk(current_value) /\ current_value.val # prev_value.val[2] ->
                HintOut(Err(<<"WrongPrevValue", prev_value.val[2],
                              current_value.val, key.val[2]>>), hs, <<>>)
          [] OTHER ->
                HintOut(Ok(None),
                        SetTracker(hs, t.val,
                                   advance(insert_value(tracker, key.val[2],
                                                        new_value.val[2]))),
                        <<>>)])])])])])])])

\* DictTracker::get_dictionary_copy (dict_manager.rs)
get_dictionary_copy(tracker) == tracker.data

\* ExecutionScopes::enter_scope (exec_scope.rs)
enter_scope(scopes, new_scope_locals) == Append(scopes, new_scope_locals)

\* Updates the tracker's current_ptr, whatever segment the new pointer is in
set_current_ptr(tracker, ptr) == [tracker EXCEPT !.current_ptr = ptr]

\* dict_squash_update_ptr that looks the tracker up by the end pointer
dict_squash_update_ptr_by_end(hs, ids) ==
    Let([squashed_dict_start \in {get_ptr_from_var_name(hs, ids, "squashed_dict_start")} |->
        IF ~IsOk(squashed_dict_start) THEN HintOut(squashed_dict_start, hs, <<>>) ELSE
    Let([squashed_dict_end \in {get_ptr_from_var_name(hs, ids, "squashed_dict_end")} |->
        IF ~IsOk(squashed_dict_end) THEN HintOut(squashed_dict_end, hs, <<>>) ELSE
    Let([t \in {get_tracker(hs, squashed_dict_end.val)} |->
        IF ~IsOk(t) THEN HintOut(t, hs, <<>>)
        ELSE HintOut(Ok(None),
                     SetTracker(hs, t.val,
                                set_current_ptr(hs.trackers[t.val],
                                                squashed_dict_end.val)),
                     <<>>)])])])

\* dict_squash_copy_dict that puts the copy in the place of the scope on
\* top
dict_squash_copy_dict_replacing_scope(hs, ids) ==
    Let([dict_accesses_end \in {get_ptr_from_var_name(hs, ids, "dict_accesses_end")} |->
        IF ~IsOk(dict_accesses_end) THEN HintOut(dict_accesses_end, hs, <<>>) ELSE
    Let([t \in {get_tracker(hs, dict_accesses_end.val)} |->
        IF ~IsOk(t) THEN HintOut(t, hs, <<>>) ELSE
    Let([dict_copy \in {get_dictionary_copy(hs.trackers[t.val])} |->
        HintOut(Ok(None),
                [hs EXCEPT !.scopes =
                    [hs.scopes EXCEPT ![Len(hs.scopes)] =
                        [n \in {"initial_dict"} |-> dict_copy]]],
                <<>>)])])])

\* # Prepare arguments for dict_new. In particular, the same dictionary
\* # values should be copied to the new (squashed) dictionary.
\* vm_enter_scope({'initial_dict':
\*     __dict_manager.get_dict(ids.dict_accesses_end)})
dict_squash_copy_dict(hs, ids) ==
    Let([dict_accesses_end \in {get_ptr_from_var_name(hs, ids, "dict_accesses_end")} |->
        IF ~IsOk(dict_accesses_end) THEN HintOut(dict_accesses_end, hs, <<>>) ELSE
    Let([t \in {get_tracker(hs, dict_accesses_end.val)} |->
        IF ~IsOk(t) THEN HintOut(t, hs, <<>>) ELSE
    Let([dict_copy \in {get_dictionary_copy(hs.trackers[t.val])} |->
        HintOut(Ok(None),
                [hs EXCEPT !.scopes =
                    enter_scope(hs.scopes,
                                [n \in {"initial_dict"} |-> dict_copy])],
                <<>>)])])])

\* # Update the DictTracker's current_ptr to point to the end of the
\* # squashed dict.
\* __dict_manager.get_tracker(ids.squashed_dict_start).current_ptr =
\*     ids.squashed_dict_end.address_
dict_squash_update_ptr(hs, ids) ==
    Let([squashed_dict_start \in {get_ptr_from_var_name(hs, ids, "squashed_dict_start")} |->
        IF ~IsOk(squashed_dict_start) THEN HintOut(squashed_dict_start, hs, <<>>) ELSE
    Let([squashed_dict_end \in {get_ptr_from_var_name(hs, ids, "squashed_dict_end")} |->
        IF ~IsOk(squashed_dict_end) THEN HintOut(squashed_dict_end, hs, <<>>) ELSE
    Let([t \in {get_tracker(hs, squashed_dict_start.val)} |->
        IF ~IsOk(t) THEN HintOut(t, hs, <<>>)
        ELSE HintOut(Ok(None),
                     SetTracker(hs, t.val,
                                set_current_ptr(hs.trackers[t.val],
                                                squashed_dict_end.val)),
                     <<>>)])])])

\* pow that takes the low bit of exp without reducing it mod PRIME
pow_without_mod(hs, ids) ==
    Let([prev_locs_addr \in {get_relocatable_from_var_name(hs, ids, "prev_locs")} |->
        IF ~IsOk(prev_locs_addr) THEN HintOut(prev_locs_addr, hs, <<>>) ELSE
    Let([prev_locs_exp \in {get_integer(hs.memory, add_usize(prev_locs_addr.val, 4))} |->
        IF ~IsOk(prev_locs_exp) THEN HintOut(prev_locs_exp, hs, <<>>) ELSE
    Let([locs_bit \in {prev_locs_exp.val[2] % 2} |->
    Let([w \in {insert_value_from_var_name(hs, ids, "locs", IntV(locs_bit))} |->
        HintOut(w.res, [hs EXCEPT !.memory = w.mem], w.inserts)])])])])

\* pow that stores ids.locs.bit whatever the cell holds
pow_storing(hs, ids) ==
    Let([prev_locs_addr \in {get_relocatable_from_var_name(hs, ids, "prev_locs")} |->
        IF ~IsOk(prev_locs_addr) THEN HintOut(prev_locs_addr, hs, <<>>) ELSE
    Let([prev_locs_exp \in {get_integer(hs.memory, add_usize(prev_locs_addr.val, 4))} |->
        IF ~IsOk(prev_locs_exp) THEN HintOut(prev_locs_exp, hs, <<>>) ELSE
    Let([locs_bit \in {mod_floor(prev_locs_exp.val[2], hs.rc.prime) % 2} |->
    Let([a \in {var_addr(hs, ids, "locs")} |->
        IF ~IsOk(a) THEN HintOut(a, hs, <<>>)
        ELSE HintOut(Ok(None),
                     [hs EXCEPT !.memory = mem_put(hs.memory, a.val,
                                                   IntV(locs_bit))],
                     <<<<a.val, IntV(locs_bit), Ok(None)>>>>)])])])])

\* ids.locs.bit = (ids.prev_locs.exp % PRIME) & 1
pow(hs, ids) ==
    Let([prev_locs_addr \in {get_relocatable_from_var_name(hs, ids, "prev_locs")} |->
        IF ~IsOk(prev_locs_addr) THEN HintOut(prev_locs_addr, hs, <<>>) ELSE
    Let([prev_locs_exp \in {get_integer(hs.memory, add_usize(prev_locs_addr.val, 4))} |->
        IF ~IsOk(prev_locs_exp) THEN HintOut(prev_locs_exp, hs, <<>>) ELSE
    Let([locs_bit \in {mod_floor(prev_locs_exp.val[2], hs.rc.prime) % 2} |->
    Let([w \in {insert_value_from_var_name(hs, ids, "locs", IntV(locs_bit))} |->
        HintOut(w.res, [hs EXCEPT !.memory = w.mem], w.inserts)])])])])

(***************************************************************************)
(* The state of a VirtualMachine and of the hint side.                     *)
(***************************************************************************)
VARIABLES
    pc, ap, fp,           \* run_context
    memory,               \* memory: the cells that hold a value
    num_segments,         \* the number of segments of the memory
    trace,                \* trace: Vec<TraceEntry>
    accessed_addresses,   \* accessed_addresses: Vec<MaybeRelocatable>
    current_step,         \* current_step
    trackers,             \* dict_manager.trackers
    scopes,               \* exec_scopes
    halted,               \* a call has panicked
    ncalls,               \* the number of hints and direct calls run
    last                  \* the last call: what it was given and returned

vars == <<pc, ap, fp, memory, num_segments, trace, accessed_addresses,
          current_step, trackers, scopes, halted, ncalls, last>>

RC == [pc |-> pc, ap |-> ap, fp |-> fp, prime |-> PRIME]

VM == [rc |-> RC, memory |-> memory, num_segments |-> num_segments,
       trace |-> trace, accessed_addresses |-> accessed_addresses,
       current_step |-> current_step]

HS == [rc |-> RC, memory |-> memory, num_segments |-> num_segments,
       trackers |-> trackers, scopes |-> scopes]

NoIds == [n \in {} |-> 0]

\* the record of a call: its name and result, the registers, memory,
\* trackers and trace length before it, and what it went through
Last(op, r, instr, operands, addrs, inserts, read, ids) ==
    [op |-> op, res |-> r, pc |-> pc, ap |-> ap, fp |-> fp,
     memory |-> memory, num_segments |-> num_segments,
     trackers |-> trackers, ntrace |-> Len(trace),
     instr |-> instr, operands |-> operands, addrs |-> addrs,
     inserts |-> inserts, read |-> read, ids |-> ids]

NoWide(read) == \A i \in 1..Len(read) : ~IsWord(read[i])

\* one call of VirtualMachine::step
Step ==
    /\ ~halted
    /\ Len(trace) < MaxTrace
    /\ \E o \in {step(VM)} :
           /\ NoWide(o.read)
           /\ pc' = o.vm.rc.pc
           /\ ap' = o.vm.rc.ap
           /\ fp' = o.vm.rc.fp
           /\ memory' = o.vm.memory
           /\ trace' = o.vm.trace
           /\ accessed_addresses' = o.vm.accessed_addresses
           /\ current_step' = o.vm.current_step
           /\ halted' = (o.res.st = "panic")
           /\ last' = Last("step", o.res, o.instr, o.operands, o.addrs,
                           o.inserts, o.read, NoIds)
    /\ UNCHANGED <<num_segments, trackers, scopes, ncalls>>

\* one call of a hint that left h behind
HintUpTo(calls, name, out, ids) ==
    /\ ~halted
    /\ ncalls < calls
    /\ ncalls' = ncalls + 1
    /\ \E h \in {out} :
           /\ memory' = h.hs.memory
           /\ num_segments' = h.hs.num_segments
           /\ trackers' = h.hs.trackers
           /\ scopes' = h.hs.scopes
           /\ pc' = h.hs.rc.pc
           /\ ap' = h.hs.rc.ap
           /\ fp' = h.hs.rc.fp
           /\ last' = Last(name, h.res, NoInstr, NoOperands, <<>>, h.inserts,
                           <<>>, ids)
    /\ UNCHANGED <<trace, accessed_addresses, current_step, halted>>

Hint(name, out, ids) == HintUpTo(MaxCalls, name, out, ids)

\* the references of a hint whose variables lie one after the other from
\* fp - 2 on, as the references of the tests lie one after the other
Refs(names) ==
    [n \in {names[i] : i \in 1..Len(names)} |->
        [register |-> "FP",
         offset1 |-> (CHOOSE i \in 1..Len(names) : names[i] = n) - 3]]

DictNew == Hint("dict_new", dict_new(HS), NoIds)

DefaultDictNew ==
    Hint("default_dict_new",
         default_dict_new(HS, Refs(<<"default_value">>)),
         Refs(<<"default_value">>))

DictRead ==
    Hint("dict_read",
         dict_read(HS, Refs(<<"key", "value", "dict_ptr">>)),
         Refs(<<"key", "value", "dict_ptr">>))

DictWrite ==
    Hint("dict_write",
         dict_write(HS, Refs(<<"key", "new_value", "dict_ptr">>)),
         Refs(<<"key", "new_value", "dict_ptr">>))

DictUpdate ==
    Hint("dict_update",
         dict_update(HS, Refs(<<"key", "prev_value", "new_value", "dict_ptr">>)),
         Refs(<<"key", "prev_value", "new_value", "dict_ptr">>))

Pow ==
    Hint("pow", pow(HS, Refs(<<"locs", "prev_locs">>)),
         Refs(<<"locs", "prev_locs">>))

\* the references of a hint whose variables lie one after the other from
\* fp on
RefsAtFp(names) ==
    [n \in {names[i] : i \in 1..Len(names)} |->
        [register |-> "FP",
         offset1 |-> (CHOOSE i \in 1..Len(names) : names[i] = n) - 1]]

DictSquashCopyDict ==
    Hint("dict_squash_copy_dict",
         dict_squash_copy_dict(HS, RefsAtFp(<<"dict_accesses_end">>)),
         RefsAtFp(<<"dict_accesses_end">>))

DictSquashUpdatePtr ==
    Hint("dict_squash_update_ptr",
         dict_squash_update_ptr(HS, RefsAtFp(<<"squashed_dict_start",
                                               "squashed_dict_end">>)),
         RefsAtFp(<<"squashed_dict_start", "squashed_dict_end">>))

(***************************************************************************)
(* Programs.  An instruction word is laid out as the decoder reads it:     *)
(* three biased offsets and fifteen flag bits.                             *)
(***************************************************************************)
FlagsOf(dst_register, op0_register, op1_addr, res, pc_update, ap_update, opcode) ==
      (IF dst_register = "FP" THEN 1 ELSE 0)
    + (IF op0_register = "FP" THEN 2 ELSE 0)
    + (CASE op1_addr = "Imm" -> 4 [] op1_addr = "FP" -> 8
         [] op1_addr = "AP" -> 16 [] OTHER -> 0)
    + (CASE res = "Add" -> 32 [] res = "Mul" -> 64 [] OTHER -> 0)
    + (CASE pc_update = "Jump" -> 128 [] pc_update = "JumpRel" -> 256
         [] pc_update = "Jnz" -> 512 [] OTHER -> 0)
    + (CASE ap_update = "Add" -> 1024 [] ap_update = "Add1" -> 2048
         [] OTHER -> 0)
    + (CASE opcode = "Call" -> 4096 [] opcode = "Ret" -> 8192
         [] opcode = "AssertEq" -> 16384 [] OTHER -> 0)

Encode(off0, off1, off2, flags) ==
    Word(BiasOf(off0), BiasOf(off1), BiasOf(off2), flags)

\* the memory that holds the given <<cell, value>> pairs, None left out
MemOf(cells) ==
    LET held == {i \in 1..Len(cells) : ~IsNone(cells[i][2])}
    IN  [c \in {cells[i][1] : i \in held} |->
            cells[CHOOSE i \in held : cells[i][1] = c][2]]

\* the values a data cell starts with
Values == {None, IntV(0), IntV(2), IntV(3), RelV(1, 1)}

\* the machine of VirtualMachine::new with a program and data loaded:
\* pc at the start of segment 0, ap and fp in segment 1
Loaded(mem, tr, sc) ==
    /\ pc = RelV(0, 0)
    /\ ap = RelV(1, 2)
    /\ fp = RelV(1, 2)
    /\ memory = mem
    /\ num_segments = 4
    /\ trace = <<>>
    /\ accessed_addresses = <<>>
    /\ current_step = 0
    /\ trackers = tr
    /\ scopes = sc
    /\ halted = FALSE
    /\ ncalls = 0
    /\ last = [op |-> "new", res |-> Ok(None), pc |-> RelV(0, 0),
               ap |-> RelV(1, 2), fp |-> RelV(1, 2), memory |-> mem,
               num_segments |-> 4, trackers |-> tr, ntrace |-> 0,
               instr |-> NoInstr, operands |-> NoOperands, addrs |-> <<>>,
               inserts |-> <<>>, read |-> <<>>, ids |-> NoIds]

NoTrackers == [g \in {} |-> 0]

MainScope == <<[n \in {} |-> 0]>>

\* one instruction dst = [ap], op0 = [fp - 2] ([ap + 1] for a call),
\* op1 = [fp - 1] or the immediate, over every data layout
OneInstruction ==
    \E op1_addr \in {"FP", "Imm"}, res \in {"Op1", "Add", "Mul"},
       pc_update \in {"Regular", "Jump", "JumpRel", "Jnz"},
       ap_update \in {"Regular", "Add", "Add1"},
       opcode \in {"NOp", "AssertEq", "Call", "Ret"},
       c0 \in Values, c1 \in Values, c2 \in Values,
       c3 \in {None, RelV(0, 2)} :
        LET call == opcode = "Call"
            word == Encode(0, IF call THEN 1 ELSE -2,
                           IF op1_addr = "Imm" THEN 1 ELSE -1,
                           FlagsOf("AP", IF call THEN "AP" ELSE "FP", op1_addr,
                                   res, pc_update, ap_update, opcode))
        IN  /\ call \/ IsNone(c3)
            /\ op1_addr = "FP" \/ IsNone(c1)
            /\ Loaded(MemOf(<<<<<<0, 0>>, word>>,
                              <<<<0, 1>>, IF op1_addr = "Imm" THEN IntV(2)
                                          ELSE None>>,
                              <<<<1, 0>>, c0>>, <<<<1, 1>>, c1>>,
                              <<<<1, 2>>, c2>>, <<<<1, 3>>, c3>>>>),
                      NoTrackers, MainScope)

\* [ap] = 3, ap++; [ap] = [ap - 1] * [ap - 1], ap++; jmp rel -3
LoopProgram ==
    <<<<<<0, 0>>, Encode(0, -1, 1, FlagsOf("AP", "FP", "Imm", "Op1", "Regular",
                                           "Add1", "AssertEq"))>>,
      <<<<0, 1>>, IntV(3)>>,
      <<<<0, 2>>, Encode(0, -1, -1, FlagsOf("AP", "AP", "AP", "Mul", "Regular",
                                            "Add1", "AssertEq"))>>,
      <<<<0, 3>>, Encode(-1, -1, 1, FlagsOf("FP", "FP", "Imm", "Op1", "JumpRel",
                                            "Regular", "NOp"))>>,
      <<<<0, 4>>, IntV(PRIME - 3)>>>>

\* call rel 3; jmp rel 0; ret
CallProgram ==
    <<<<<<0, 0>>, Encode(0, 1, 1, FlagsOf("AP", "AP", "Imm", "Op1", "JumpRel",
                                          "Regular", "Call"))>>,
      <<<<0, 1>>, IntV(3)>>,
      <<<<0, 2>>, Encode(-1, -1, 1, FlagsOf("FP", "FP", "Imm", "Op1", "JumpRel",
                                            "Regular", "NOp"))>>,
      <<<<0, 3>>, Encode(-2, -1, -1, FlagsOf("FP", "FP", "FP", "Op1", "Jump",
                                             "Regular", "Ret"))>>>>

\* ret; call rel 2: the ret takes fp from [fp - 2] and pc from [fp - 1]
RetCallProgram ==
    <<<<<<0, 0>>, Encode(-2, -1, -1, FlagsOf("FP", "FP", "FP", "Op1", "Jump",
                                             "Regular", "Ret"))>>,
      <<<<0, 2>>, Encode(0, 1, 1, FlagsOf("AP", "AP", "Imm", "Op1", "JumpRel",
                                          "Regular", "Call"))>>,
      <<<<0, 3>>, IntV(2)>>>>

Programs == {LoopProgram, CallProgram, RetCallProgram}

SomeProgram ==
    \E prog \in Programs, c0 \in Values, c1 \in Values \cup {RelV(0, 2)},
       c2 \in {None, IntV(3)} :
        Loaded(MemOf(prog \o <<<<<<1, 0>>, c0>>, <<<<1, 1>>, c1>>,
                               <<<<1, 2>>, c2>>>>),
               NoTrackers, MainScope)

InitStep == OneInstruction \/ SomeProgram

SpecStep == InitStep /\ [][Step]_vars

(***************************************************************************)
(* The programs of the step tests, run to their end: step is called again  *)
(* and again, as the run loop calls it.                                    *)
(***************************************************************************)
\* the return addresses the tests put below the first frame
FrameData == <<<<<<1, 0>>, RelV(2, 0)>>, <<<<1, 1>>, RelV(3, 0)>>>>

\* test_step_for_preset_memory: ret
RetWord ==
    Encode(-2, -1, -1, FlagsOf("FP", "FP", "FP", "Op1", "Jump", "Regular", "Ret"))

RetProgram == <<<<<<0, 0>>, RetWord>>>>

\* test_step_for_preset_memory_function_call:
\* (0,0) [ap] = [fp - 3] * 2, ap++; (0,2) ret;
\* (0,3) [ap] = 1, ap++; (0,5) call rel -5; (0,7) ret
FunctionCallProgram ==
    <<<<<<0, 0>>, Encode(0, -3, 1, FlagsOf("AP", "FP", "Imm", "Mul", "Regular",
                                           "Add1", "AssertEq"))>>,
      <<<<0, 1>>, IntV(2)>>,
      <<<<0, 2>>, RetWord>>,
      <<<<0, 3>>, Encode(0, -1, 1, FlagsOf("AP", "FP", "Imm", "Op1", "Regular",
                                           "Add1", "AssertEq"))>>,
      <<<<0, 4>>, IntV(1)>>,
      <<<<0, 5>>, Encode(0, 1, 1, FlagsOf("AP", "AP", "Imm", "Op1", "JumpRel",
                                          "Regular", "Call"))>>,
      <<<<0, 6>>, IntV(PRIME - 5)>>,
      <<<<0, 7>>, RetWord>>>>

\* multiplication_and_different_ap_increase:
\* (0,0) [ap] = 4; (0,2) ap += 1; (0,4) [ap] = 5, ap++;
\* (0,6) [ap] = [ap - 1] * [ap - 2]; (0,7) ret
MulProgram ==
    <<<<<<0, 0>>, Encode(0, -1, 1, FlagsOf("AP", "FP", "Imm", "Op1", "Regular",
                                           "Regular", "AssertEq"))>>,
      <<<<0, 1>>, IntV(4)>>,
      <<<<0, 2>>, Encode(-1, -1, 1, FlagsOf("FP", "FP", "Imm", "Op1", "Regular",
                                            "Add", "NOp"))>>,
      <<<<0, 3>>, IntV(1)>>,
      <<<<0, 4>>, Encode(0, -1, 1, FlagsOf("AP", "FP", "Imm", "Op1", "Regular",
                                           "Add1", "AssertEq"))>>,
      <<<<0, 5>>, IntV(5)>>,
      <<<<0, 6>>, Encode(0, -1, -2, FlagsOf("AP", "AP", "AP", "Mul", "Regular",
                                            "Regular", "AssertEq"))>>,
      <<<<0, 7>>, RetWord>>>>

\* the data cells the test presets: 4, 5 and their product in the field
MulData ==
    FrameData \o <<<<<<1, 2>>, IntV(4)>>, <<<<1, 3>>, IntV(5)>>,
                   <<<<1, 4>>, IntV((4 * 5) % PRIME)>>>>

\* the machine of a test: memory preset, pc at the start the test gives
LoadedAt(start, mem) ==
    /\ pc = start
    /\ ap = RelV(1, 2)
    /\ fp = RelV(1, 2)
    /\ memory = mem
    /\ num_segments = 4
    /\ trace = <<>>
    /\ accessed_addresses = <<>>
    /\ current_step = 0
    /\ trackers = NoTrackers
    /\ scopes = MainScope
    /\ halted = FALSE
    /\ ncalls = 0
    /\ last = [op |-> "new", res |-> Ok(None), pc |-> start,
               ap |-> RelV(1, 2), fp |-> RelV(1, 2), memory |-> mem,
               num_segments |-> 4, trackers |-> NoTrackers, ntrace |-> 0,
               instr |-> NoInstr, operands |-> NoOperands, addrs |-> <<>>,
               inserts |-> <<>>, read |-> <<>>, ids |-> NoIds]

TestPrograms ==
    \/ LoadedAt(RelV(0, 0), MemOf(RetProgram \o FrameData))
    \/ LoadedAt(RelV(0, 3), MemOf(FunctionCallProgram \o FrameData))
    \/ LoadedAt(RelV(0, 0), MemOf(MulProgram \o MulData))
    \/ LoadedAt(RelV(0, 0), MemOf(MulProgram \o FrameData))
    \/ LoadedAt(RelV(0, 0), MemOf(MulProgram))

InitRun == TestPrograms \/ SomeProgram

\* the variables a step may change, and what the step o leaves in them
Before ==
    <<pc, ap, fp, memory, trace, accessed_addresses, current_step, halted, last>>

AfterStep(o) ==
    <<o.vm.rc.pc, o.vm.rc.ap, o.vm.rc.fp, o.vm.memory, o.vm.trace,
      o.vm.accessed_addresses, o.vm.current_step, o.res.st = "panic",
      Last("step", o.res, o.instr, o.operands, o.addrs, o.inserts, o.read,
           NoIds)>>

\* ENABLED <<Step>>_vars, written out: a step can be taken and changes
\* something
CanStep ==
    /\ ~halted
    /\ Len(trace) < MaxTrace
    /\ \E o \in {step(VM)} : NoWide(o.read) /\ AfterStep(o) # Before

\* WF_vars(Step) with CanStep for ENABLED <<Step>>_vars: the run loop calls
\* step again as long as it can
StepFairness == []<>~CanStep \/ []<><<Step>>_vars

SpecRun == InitRun /\ [][Step]_vars /\ StepFairness

(***************************************************************************)
(* Steps and hints together: a program, data the hints read, a dictionary  *)
(* a former hint may have made, and an initial_dict in scope or not.       *)
(***************************************************************************)
\* call with dst and op0 at one cell: the two write-backs meet
CallOneCell ==
    <<<<<<0, 0>>, Encode(0, 0, 1, FlagsOf("AP", "AP", "Imm", "Op1", "JumpRel",
                                          "Regular", "Call"))>>,
      <<<<0, 1>>, IntV(2)>>>>

\* [ap] = [fp - 2] + [fp - 1], ap++
AddProgram ==
    <<<<<<0, 0>>, Encode(0, -2, -1, FlagsOf("AP", "FP", "FP", "Add", "Regular",
                                            "Add1", "AssertEq"))>>>>

SmallDict == [k \in {2} |-> 3]

InitTrackers ==
    {NoTrackers, [g \in {2} |-> Tracker(RelV(2, 0), FALSE, 0, SmallDict)]}

InitScopes == {MainScope, <<[n \in {"initial_dict"} |-> SmallDict]>>}

Init ==
    \E prog \in {AddProgram, CallOneCell},
       c0 \in {None, IntV(2), IntV(3)}, c1 \in {None, IntV(2), IntV(3)},
       c2 \in {None, IntV(3), RelV(2, 0)}, c3 \in {None, RelV(2, 0)},
       d1 \in {None, IntV(2)},
       tr \in InitTrackers, sc \in InitScopes :
        Loaded(MemOf(prog \o <<<<<<1, 0>>, c0>>, <<<<1, 1>>, c1>>,
                               <<<<1, 2>>, c2>>, <<<<1, 3>>, c3>>,
                               <<<<1, 5>>, IntV(3)>>, <<<<2, 1>>, d1>>>>),
               tr, sc)

Next ==
    \/ Step
    \/ DictNew
    \/ DefaultDictNew
    \/ DictRead
    \/ DictWrite
    \/ DictUpdate
    \/ DictSquashCopyDict
    \/ DictSquashUpdatePtr
    \/ Pow

Spec == Init /\ [][Next]_vars

(***************************************************************************)
(* The dict hints called on a machine the tests set up: the variables of   *)
(* the hints in segment 1 from fp - 2 on, ap past them, and the dict       *)
(* manager empty or holding a Simple tracker for segment 2 and a Default   *)
(* tracker for segment 3 that has moved on by one access.                  *)
(***************************************************************************)
DefaultOfDict == 4

TwoTrackers ==
    [g \in {2, 3} |->
        IF g = 2 THEN Tracker(RelV(2, 0), FALSE, 0, SmallDict)
        ELSE Tracker(RelV(3, DICT_ACCESS_SIZE), TRUE, DefaultOfDict, EmptyDict)]

InitDict ==
    \E c0 \in {None, IntV(2), IntV(5), RelV(2, 0)},
       c1 \in {None, IntV(3), IntV(4)},
       c2 \in {IntV(4), IntV(6), RelV(2, 0), RelV(3, 0),
               RelV(3, DICT_ACCESS_SIZE)},
       c3 \in {None, RelV(2, 0), RelV(2, 6), RelV(3, DICT_ACCESS_SIZE),
               RelV(1, 0)},
       tr \in {NoTrackers, TwoTrackers}, sc \in InitScopes :
        /\ pc = RelV(0, 0)
        /\ ap = RelV(1, 5)
        /\ fp = RelV(1, 2)
        /\ memory = MemOf(<<<<<<1, 0>>, c0>>, <<<<1, 1>>, c1>>,
                            <<<<1, 2>>, c2>>, <<<<1, 3>>, c3>>>>)
        /\ num_segments = 4
        /\ trace = <<>>
        /\ accessed_addresses = <<>>
        /\ current_step = 0
        /\ trackers = tr
        /\ scopes = sc
        /\ halted = FALSE
        /\ ncalls = 0
        /\ last = [op |-> "new", res |-> Ok(None), pc |-> pc, ap |-> ap,
                   fp |-> fp, memory |-> memory, num_segments |-> 4,
                   trackers |-> tr, ntrace |-> 0, instr |-> NoInstr,
                   operands |-> NoOperands, addrs |-> <<>>, inserts |-> <<>>,
                   read |-> <<>>, ids |-> NoIds]

NextDict ==
    \/ DictNew
    \/ DefaultDictNew
    \/ DictRead
    \/ DictWrite
    \/ DictUpdate
    \/ DictSquashCopyDict
    \/ DictSquashUpdatePtr

SpecDict == InitDict /\ [][NextDict]_vars

(***************************************************************************)
(* The pow hint called on a machine the tests set up: ids.locs at fp - 2,  *)
(* ids.prev_locs at fp - 1 and so its member exp at fp + 3, with the hint  *)
(* given both variables or ids.locs only.                                  *)
(***************************************************************************)
\* what the cell of ids.locs and the cell of ids.prev_locs.exp start with
LocsValues == {None, IntV(0), IntV(1), IntV(2), RelV(1, 1)}

ExpValues == {None, IntV(0), IntV(3), IntV(PRIME + 2), RelV(1, 1)}

InitPow ==
    \E locs \in LocsValues, exp \in ExpValues, c4 \in {None, IntV(1)},
       tr \in {NoTrackers, TwoTrackers}, sc \in InitScopes :
        /\ pc = RelV(0, 0)
        /\ ap = RelV(1, 6)
        /\ fp = RelV(1, 2)
        /\ memory = MemOf(<<<<<<1, 0>>, locs>>, <<<<1, 4>>, c4>>,
                            <<<<1, 5>>, exp>>>>)
        /\ num_segments = 4
        /\ trace = <<>>
        /\ accessed_addresses = <<>>
        /\ current_step = 0
        /\ trackers = tr
        /\ scopes = sc
        /\ halted = FALSE
        /\ ncalls = 0
        /\ last = [op |-> "new", res |-> Ok(None), pc |-> pc, ap |-> ap,
                   fp |-> fp, memory |-> memory, num_segments |-> 4,
                   trackers |-> tr, ntrace |-> 0, instr |-> NoInstr,
                   operands |-> NoOperands, addrs |-> <<>>, inserts |-> <<>>,
                   read |-> <<>>, ids |-> NoIds]

\* pow given ids that hold no prev_locs
PowWithoutPrevLocs ==
    Hint("pow", pow(HS, Refs(<<"locs">>)), Refs(<<"locs">>))

NextPow ==
    \/ Pow
    \/ PowWithoutPrevLocs

SpecPow == InitPow /\ [][NextPow]_vars

(***************************************************************************)
(* A dictionary made by dict_new or default_dict_new and then accessed:    *)
(* ap is at the cell that takes the base of the new dictionary, the cells  *)
(* after it hold the pointers one and two accesses on, and each access is  *)
(* given one of the three as its ids.dict_ptr.                             *)
(***************************************************************************)
MaxAccesses == 3

\* where ids.dict_ptr may lie, from fp
PtrOffsets == {1, 2, 3}

AccessRefs(names, d) ==
    [n \in names |->
        [register |-> "FP",
         offset1 |-> CASE n = "key" -> -2 [] n = "dict_ptr" -> d [] OTHER -> -1]]

InitAccess ==
    \E key \in {IntV(2), IntV(5)}, value \in {None, IntV(3), IntV(4)},
       sc \in InitScopes :
        /\ pc = RelV(0, 0)
        /\ ap = RelV(1, 3)
        /\ fp = RelV(1, 2)
        /\ memory = MemOf(<<<<<<1, 0>>, key>>, <<<<1, 1>>, value>>,
                            <<<<1, 4>>, RelV(4, DICT_ACCESS_SIZE)>>,
                            <<<<1, 5>>, RelV(4, 2 * DICT_ACCESS_SIZE)>>>>)
        /\ num_segments = 4
        /\ trace = <<>>
        /\ accessed_addresses = <<>>
        /\ current_step = 0
        /\ trackers = NoTrackers
        /\ scopes = sc
        /\ halted = FALSE
        /\ ncalls = 0
        /\ last = [op |-> "new", res |-> Ok(None), pc |-> pc, ap |-> ap,
                   fp |-> fp, memory |-> memory, num_segments |-> 4,
                   trackers |-> NoTrackers, ntrace |-> 0, instr |-> NoInstr,
                   operands |-> NoOperands, addrs |-> <<>>, inserts |-> <<>>,
                   read |-> <<>>, ids |-> NoIds]

DictReadAt ==
    \E d \in PtrOffsets :
        HintUpTo(1 + MaxAccesses, "dict_read",
                 dict_read(HS, AccessRefs({"key", "value", "dict_ptr"}, d)),
                 AccessRefs({"key", "value", "dict_ptr"}, d))

DictWriteAt ==
    \E d \in PtrOffsets :
        HintUpTo(1 + MaxAccesses, "dict_write",
                 dict_write(HS, AccessRefs({"key", "new_value", "dict_ptr"}, d)),
                 AccessRefs({"key", "new_value", "dict_ptr"}, d))

DictUpdateAt ==
    \E d \in PtrOffsets :
        HintUpTo(1 + MaxAccesses, "dict_update",
                 dict_update(HS, AccessRefs({"key", "prev_value", "new_value",
                                             "dict_ptr"}, d)),
                 AccessRefs({"key", "prev_value", "new_value", "dict_ptr"}, d))

NextAccess ==
    \/ DictNew
    \/ DefaultDictNew
    \/ DictReadAt
    \/ DictWriteAt
    \/ DictUpdateAt

SpecAccess == InitAccess /\ [][NextAccess]_vars

(***************************************************************************)
(* The register updates called on their own, as the unit tests call them:  *)
(* any registers, any instruction the decoder gives, any operands.         *)
(***************************************************************************)
RegValues == {IntV(4), IntV(PRIME - 1), RelV(0, 0), RelV(1, 2)}

OperandValues == {IntV(0), IntV(2), RelV(1, 1)}

InitRegs ==
    /\ pc \in RegValues
    /\ ap \in {IntV(5), IntV(PRIME - 1), RelV(1, 2)}
    /\ fp \in {IntV(6), RelV(1, 2)}
    /\ memory = MemOf(<<>>)
    /\ num_segments = 4
    /\ trace = <<>>
    /\ accessed_addresses = <<>>
    /\ current_step = 0
    /\ trackers = NoTrackers
    /\ scopes = MainScope
    /\ halted = FALSE
    /\ ncalls = 0
    /\ last = [op |-> "new", res |-> Ok(None), pc |-> pc, ap |-> ap,
               fp |-> fp, memory |-> memory, num_segments |-> 4,
               trackers |-> NoTrackers, ntrace |-> 0, instr |-> NoInstr,
               operands |-> NoOperands, addrs |-> <<>>, inserts |-> <<>>,
               read |-> <<>>, ids |-> NoIds]

\* the instructions handed to the register updates
InstructionsOf(op1_addrs, pc_updates, ap_updates, opcodes) ==
    {decode_instruction(
         Digits(Encode(0, -1, IF op1_addr = "Imm" THEN 1 ELSE -1,
                       FlagsOf("AP", "FP", op1_addr, "Op1", pc_update,
                               ap_update, opcode))),
         IF op1_addr = "Imm" THEN IntV(2) ELSE None) :
       op1_addr \in op1_addrs, pc_update \in pc_updates,
       ap_update \in ap_updates, opcode \in opcodes}

PcUpdates == {"Regular", "Jump", "JumpRel", "Jnz"}

ApUpdates == {"Regular", "Add", "Add1"}

OperandsOf(dsts, ress, op1s) == [dst : dsts, res : ress, op0 : {IntV(2)}, op1 : op1s]

\* a direct call that leaves the run context rc and the result r behind
Direct(name, r, rc, instr, operands) ==
    /\ ncalls' = 1
    /\ pc' = rc.pc
    /\ ap' = rc.ap
    /\ fp' = rc.fp
    /\ halted' = (r.st = "panic")
    /\ last' = Last(name, r, instr, operands, <<>>, <<>>, <<>>, NoIds)
    /\ UNCHANGED <<memory, num_segments, trace, accessed_addresses,
                   current_step, trackers, scopes>>

UpdatePc ==
    /\ ncalls = 0
    /\ \E instr \in InstructionsOf({"FP", "Imm"}, PcUpdates, {"Regular"}, {"NOp"}),
           operands \in OperandsOf(OperandValues, OperandValues \cup {None},
                                   OperandValues) :
            \E r \in {update_pc(RC, instr, operands)} :
                Direct("update_pc", r,
                       IF IsOk(r) THEN [RC EXCEPT !.pc = r.val] ELSE RC,
                       instr, operands)

UpdateAp ==
    /\ ncalls = 0
    /\ \E instr \in InstructionsOf({"FP"}, {"Regular"}, ApUpdates, {"NOp", "Call"}),
           operands \in OperandsOf({IntV(2)}, OperandValues \cup {None}, {IntV(2)}) :
            \E r \in {update_ap(RC, instr, operands)} :
                Direct("update_ap", r,
                       IF IsOk(r) THEN [RC EXCEPT !.ap = r.val] ELSE RC,
                       instr, operands)

UpdateFp ==
    /\ ncalls = 0
    /\ \E instr \in InstructionsOf({"FP"}, {"Regular"}, {"Regular"},
                                    {"NOp", "Call", "Ret"}),
           operands \in OperandsOf(OperandValues, {None}, {IntV(2)}) :
            Direct("update_fp", Ok(None),
                   [RC EXCEPT !.fp = update_fp(RC, instr, operands)],
                   instr, operands)

UpdateRegisters ==
    /\ ncalls = 0
    /\ \E instr \in InstructionsOf({"Imm"}, PcUpdates, ApUpdates,
                                    {"NOp", "Call", "Ret"}),
           operands \in OperandsOf(OperandValues, OperandValues \cup {None},
                                   {IntV(2)}) :
            \E u \in {update_registers(RC, instr, operands)} :
                Direct("update_registers", u.res, u.rc, instr, operands)

NextRegs == UpdatePc \/ UpdateAp \/ UpdateFp \/ UpdateRegisters

SpecRegs == InitRegs /\ [][NextRegs]_vars

(***************************************************************************)
(* deduce_op0 and deduce_op1 called on their own, as the unit tests call   *)
(* them: any opcode and res mode, dst and the known operand absent, any    *)
(* field element or an address.                                            *)
(***************************************************************************)
\* the instruction of the deduce tests, with its opcode and res mode
DeduceInstructions ==
    {[off0 |-> 1, off1 |-> 2, off2 |-> 3, imm |-> None,
      dst_register |-> "FP", op0_register |-> "AP", op1_addr |-> "AP",
      res |-> res, pc_update |-> "Jump", ap_update |-> "Regular",
      fp_update |-> "Regular", opcode |-> opcode] :
       res \in {"Op1", "Add", "Mul", "Unconstrained"},
       opcode \in {"NOp", "AssertEq", "Call", "Ret"}}

FieldValues == {IntV(n) : n \in 0..(PRIME - 1)} \cup {None, RelV(1, 1)}

InitDeduce == InitRegs /\ ap = RelV(1, 2) /\ fp = RelV(1, 2)

DeduceOp0 ==
    /\ ncalls = 0
    /\ \E instr \in DeduceInstructions, dst \in FieldValues,
           op1 \in FieldValues :
            \E r \in {deduce_op0(RC, instr, dst, op1)} :
                Direct("deduce_op0", r, RC, instr,
                       [dst |-> dst, res |-> None, op0 |-> None, op1 |-> op1])

DeduceOp1 ==
    /\ ncalls = 0
    /\ \E instr \in DeduceInstructions, dst \in FieldValues,
           op0 \in FieldValues :
            \E r \in {deduce_op1(RC, instr, dst, op0)} :
                Direct("deduce_op1", r, RC, instr,
                       [dst |-> dst, res |-> None, op0 |-> op0, op1 |-> None])

NextDeduce == DeduceOp0 \/ DeduceOp1

SpecDeduce == InitDeduce /\ [][NextDeduce]_vars

(***************************************************************************)
(* Properties.  last holds the registers, memory and trace length a call   *)
(* started from, what it went through and what it returned; the variables  *)
(* hold what it left behind.                                               *)
(***************************************************************************)
\* a step returned Ok
StepOk == last.op = "step" /\ IsOk(last.res)

\* a + b in the field: Int + Int is reduced mod PRIME, an address plus an
\* Int moves the offset mod PRIME; two addresses have no sum
Plus(a, b) ==
    CASE IsInt(a) /\ IsInt(b) -> IntV((a[2] + b[2]) % PRIME)
      [] IsRel(a) /\ IsInt(b) -> RelV(a[2], (a[3] + b[2]) % PRIME)
      [] IsInt(a) /\ IsRel(b) -> RelV(b[2], (b[3] + a[2]) % PRIME)
      [] OTHER -> None

\* a * b in the field; only two Ints have a product
Times(a, b) ==
    IF IsInt(a) /\ IsInt(b) THEN IntV((a[2] * b[2]) % PRIME) ELSE None

\* a moved n cells on, the offset not reduced
Shift(a, n) == IF IsInt(a) THEN IntV(a[2] + n) ELSE RelV(a[2], a[3] + n)

\* C1: every call of step that returns Ok appends exactly one entry to the
\* trace, the pc, ap and fp the call started from, and no call changes or
\* removes an entry the trace already holds.
C1_TraceAppended ==
    [][/\ (last'.op = "step" /\ IsOk(last'.res)) =>
              trace' = Append(trace, [pc |-> pc, ap |-> ap, fp |-> fp])
       /\ \A i \in 1..Len(trace) : i <= Len(trace') /\ trace'[i] = trace[i]]_vars

\* a step returned Ok after another had moved ap away from fp
C1_Witness ==
    /\ StepOk
    /\ Len(trace) >= 2
    /\ last.ap # last.fp
    /\ trace[Len(trace)] = [pc |-> last.pc, ap |-> last.ap, fp |-> last.fp]

\* the value the cell of the i-th insert of the last call held when that
\* insert was made: what an earlier insert of the call put there, else what
\* the memory held when the call began
HeldBefore(i) ==
    LET a == last.inserts[i][1]
        made == {j \in 1..(i - 1) :
                    last.inserts[j][1] = a /\ IsOk(last.inserts[j][3])}
    IN  IF made = {} THEN mem_get(last.memory, a)
        ELSE last.inserts[CHOOSE j \in made : \A k \in made : j <= k][2]

\* the i-th insert of the last call met a cell that held another value
Conflict(i) == ~IsNone(HeldBefore(i)) /\ HeldBefore(i) # last.inserts[i][2]

\* C2: an insert of v2 at an address a that holds v1 # v2, made by a hint
\* or by the write-back of a step, returns InconsistentMemory(a, v1, v2);
\* the cell holds v1 after the call, and a hint returns that error.
C2_InsertOnce ==
    \A i \in 1..Len(last.inserts) :
        Conflict(i) =>
            /\ last.inserts[i][3] =
                   Err(<<"InconsistentMemory", last.inserts[i][1],
                         HeldBefore(i), last.inserts[i][2]>>)
            /\ mem_get(memory, last.inserts[i][1]) = HeldBefore(i)
            /\ last.op # "step" => last.res = last.inserts[i][3]

\* dict_new found ap taken
C2_Witness ==
    /\ last.op = "dict_new"
    /\ Len(last.inserts) = 1
    /\ Conflict(1)
    /\ IsRel(mem_get(memory, last.ap))
    /\ mem_get(memory, last.ap) = mem_get(last.memory, last.ap)

\* C3: a cell that holds a value holds that value after every step and
\* every dict or pow hint.
C3_CellsLive ==
    [][\A c \in DOMAIN memory : c \in DOMAIN memory' /\ memory'[c] = memory[c]]_vars

\* a step and a hint have run, and the last call filled a cell and met
\* one that was taken
C3_Witness ==
    /\ ncalls >= 1
    /\ current_step >= 1
    /\ \E i \in 1..Len(last.inserts) : IsOk(last.inserts[i][3])
    /\ \E i \in 1..Len(last.inserts) : ~IsOk(last.inserts[i][3])
    /\ \A c \in DOMAIN last.memory : c \in DOMAIN memory /\ memory[c] = last.memory[c]

\* C4 as the specification states it: after a step of an AssertEq
\* instruction with res Add returns Ok, dst = op0 + op1 mod PRIME, the
\* operands read or deduced, integers or addresses.
C4_AssertEqAdd ==
    (StepOk /\ last.instr.opcode = "AssertEq" /\ last.instr.res = "Add") =>
        last.operands.dst = Plus(last.operands.op0, last.operands.op1)

\* C5 as the specification states it: after a step of an AssertEq
\* instruction with res Mul returns Ok, dst = op0 * op1 mod PRIME, also
\* when op0 or op1 was deduced from dst and the other operand.
C5_AssertEqMul ==
    (StepOk /\ last.instr.opcode = "AssertEq" /\ last.instr.res = "Mul") =>
        last.operands.dst = Times(last.operands.op0, last.operands.op1)

\* a call that returned Ok, its dst at [ap] and its op0 at [ap + 1]
CallOk ==
    /\ StepOk
    /\ last.instr.opcode = "Call"
    /\ last.instr.dst_register = "AP" /\ last.instr.off0 = 0
    /\ last.instr.op0_register = "AP" /\ last.instr.off1 = 1

\* the cells at the old ap and the old ap + 1, their offsets reduced mod
\* PRIME as the run context reduces them
SavedFpCell == Plus(last.ap, IntV(0))

ReturnPcCell == Plus(last.ap, IntV(1))

\* what a call leaves in a cell of its frame that should hold v: v when
\* the cell held nothing; else what it held, which was compared with v
\* only when both are integers
FrameCell(cell, v) ==
    IF IsNone(mem_get(last.memory, cell)) THEN mem_get(memory, cell) = v
    ELSE /\ mem_get(memory, cell) = mem_get(last.memory, cell)
         /\ (IsInt(v) /\ IsInt(mem_get(memory, cell))) =>
                mem_get(memory, cell) = v

JnzZero ==
    /\ StepOk
    /\ last.instr.pc_update = "Jnz"
    /\ last.operands.dst = IntV(0)
    /\ size(last.instr) = 2

\* C7: a step of a Jnz instruction of size 2 whose dst is the integer 0
\* leaves pc at the old pc + 2.
C7_JnzFallsThrough == JnzZero => pc = Shift(last.pc, 2)

C7_Witness == JnzZero /\ ~IsNone(last.instr.imm) /\ pc = RelV(0, 2)

\* update_pc or update_ap was called on its own
PcCall(pc_update) == last.op = "update_pc" /\ last.instr.pc_update = pc_update

ApCall(ap_update) == last.op = "update_ap" /\ last.instr.ap_update = ap_update

\* C8: update_pc returns Ok and leaves pc at: the old pc + instr.size for
\* Regular, the size 2 with an immediate and 1 without; res for Jump; the
\* old pc + res for JumpRel with an integer res; the old pc + op1 for Jnz
\* with an integer dst other than 0, where pc and op1 have a sum.  The sums
\* are taken mod PRIME.
C8_UpdatePcValues ==
    /\ PcCall("Regular") =>
           /\ IsOk(last.res)
           /\ pc = Plus(last.pc, IntV(IF IsNone(last.instr.imm) THEN 1 ELSE 2))
    /\ (PcCall("Jump") /\ ~IsNone(last.operands.res)) =>
           IsOk(last.res) /\ pc = last.operands.res
    /\ (PcCall("JumpRel") /\ IsInt(last.operands.res)) =>
           IsOk(last.res) /\ pc = Plus(last.pc, last.operands.res)
    /\ (PcCall("Jnz") /\ IsInt(last.operands.dst)
          /\ last.operands.dst # IntV(0)
          /\ ~IsNone(Plus(last.pc, last.operands.op1))) =>
           IsOk(last.res) /\ pc = Plus(last.pc, last.operands.op1)

\* a Jnz with dst other than 0 took an integer pc round the field
C8_Witness ==
    /\ PcCall("Jnz")
    /\ last.operands.dst = IntV(2)
    /\ last.pc = IntV(PRIME - 1)
    /\ last.operands.op1 = IntV(2)
    /\ pc = IntV(1)

\* C9: update_pc returns an error and leaves pc as it was for: Jump
\* without res (UnconstrainedResJump), JumpRel without res
\* (UnconstrainedResJumpRel), JumpRel with a relocatable res (PureValue),
\* Jnz with a relocatable dst (PureValue).
C9_UpdatePcErrors ==
    /\ (PcCall("Jump") /\ IsNone(last.operands.res)) =>
           last.res = Err(<<"UnconstrainedResJump">>) /\ pc = last.pc
    /\ (PcCall("JumpRel") /\ IsNone(last.operands.res)) =>
           last.res = Err(<<"UnconstrainedResJumpRel">>) /\ pc = last.pc
    /\ (PcCall("JumpRel") /\ IsRel(last.operands.res)) =>
           last.res = Err(<<"PureValue">>) /\ pc = last.pc
    /\ (PcCall("Jnz") /\ IsRel(last.operands.dst)) =>
           last.res = Err(<<"PureValue">>) /\ pc = last.pc

\* a JumpRel met a relocatable res
C9_Witness ==
    /\ PcCall("JumpRel")
    /\ IsRel(last.operands.res)
    /\ ~IsOk(last.res)
    /\ pc = last.pc

\* C10: update_ap leaves ap at the old ap + res (mod PRIME) for Add with
\* res, returns UnconstrainedResAdd and leaves ap as it was for Add without
\* res, leaves ap at the old ap + 1 for Add1 and + 2 for Add2, and leaves
\* it as it was for Regular.
C10_UpdateAp ==
    /\ (ApCall("Add") /\ ~IsNone(last.operands.res)
          /\ ~IsNone(Plus(last.ap, last.operands.res))) =>
           IsOk(last.res) /\ ap = Plus(last.ap, last.operands.res)
    /\ (ApCall("Add") /\ IsNone(last.operands.res)) =>
           last.res = Err(<<"UnconstrainedResAdd">>) /\ ap = last.ap
    /\ ApCall("Add1") => IsOk(last.res) /\ ap = Shift(last.ap, 1)
    /\ ApCall("Add2") => IsOk(last.res) /\ ap = Shift(last.ap, 2)
    /\ ApCall("Regular") => IsOk(last.res) /\ ap = last.ap

\* an Add moved ap by res
C10_Witness ==
    /\ ApCall("Add")
    /\ last.operands.res = IntV(2)
    /\ IsOk(last.res)
    /\ ap # last.ap


\* update_registers was called on its own
RegsCall == last.op = "update_registers"

\* what update_fp, update_ap and update_pc make of the registers the call
\* started from; None where the update has no value
FpFrom ==
    CASE last.instr.fp_update = "APPlus2" -> Shift(last.ap, 2)
      [] last.instr.fp_update = "Dst" -> last.operands.dst
      [] OTHER -> last.fp

ApFrom ==
    CASE last.instr.ap_update = "Add" ->
            IF IsNone(last.operands.res) THEN None
            ELSE Plus(last.ap, last.operands.res)
      [] last.instr.ap_update = "Add1" -> Shift(last.ap, 1)
      [] last.instr.ap_update = "Add2" -> Shift(last.ap, 2)
      [] OTHER -> last.ap

PcFrom ==
    CASE last.instr.pc_update = "Regular" ->
            Plus(last.pc, IntV(IF IsNone(last.instr.imm) THEN 1 ELSE 2))
      [] last.instr.pc_update = "Jump" -> last.operands.res
      [] last.instr.pc_update = "JumpRel" ->
            IF IsInt(last.operands.res) THEN Plus(last.pc, last.operands.res)
            ELSE None
      [] OTHER ->
            IF ~IsInt(last.operands.dst) THEN None
            ELSE IF last.operands.dst = IntV(0)
                 THEN Shift(last.pc, IF IsNone(last.instr.imm) THEN 1 ELSE 2)
                 ELSE Plus(last.pc, last.operands.op1)

\* C11: update_registers updates fp, then ap, then pc, each from the value
\* the register had when the call started and from the operands: fp is
\* always updated (the old ap + 2 for APPlus2, also where ap moves by 2;
\* operands.dst for Dst); where the ap update fails, ap and pc are left
\* alone; where it succeeds ap is updated, and pc is updated where the pc
\* update succeeds too and left alone where it fails.
C11_UpdateRegisters ==
    RegsCall =>
        /\ fp = FpFrom
        /\ IsNone(ApFrom) => ~IsOk(last.res) /\ ap = last.ap /\ pc = last.pc
        /\ ~IsNone(ApFrom) => ap = ApFrom
        /\ (~IsNone(ApFrom) /\ IsNone(PcFrom)) =>
               ~IsOk(last.res) /\ pc = last.pc
        /\ (~IsNone(ApFrom) /\ ~IsNone(PcFrom)) =>
               IsOk(last.res) /\ pc = PcFrom

\* a Call moved ap by 2 and set fp to the old ap + 2, not the new ap + 2
C11_Witness ==
    /\ RegsCall
    /\ IsOk(last.res)
    /\ last.instr.fp_update = "APPlus2"
    /\ last.instr.ap_update = "Add2"
    /\ fp = Shift(last.ap, 2)
    /\ ap = Shift(last.ap, 2)
    /\ fp # Shift(ap, 2)


\* how far the step that made this transition went: it returned from
\* decode_current_instruction, from compute_operands, from the panic of an
\* opcode assertion, from update_registers, or at its end
AssertionPanics ==
    {"Res.UNCONSTRAINED cannot be used with Opcode.ASSERT_EQ",
     "An ASSERT_EQ instruction failed",
     "Call failed to write return-pc (inconsistent op0)",
     "Call failed to write return-fp (inconsistent dst)"}

Stage(l) ==
    CASE l.instr = NoInstr -> "decode"
      [] l.instr # NoInstr /\ l.addrs = <<>> -> "operands"
      [] l.addrs # <<>> /\ l.res.st = "panic"
           /\ l.res.err[1] \in AssertionPanics -> "assert"
      [] l.addrs # <<>> /\ ~IsOk(l.res)
           /\ ~(l.res.st = "panic" /\ l.res.err[1] \in AssertionPanics) ->
            "registers"
      [] OTHER -> "done"

InSeq(x, q) == \E i \in 1..Len(q) : q[i] = x

\* the transition pushed the trace entry of the registers it started from
\* and recorded the operand addresses and that pc as accessed
TracedAndAccessed ==
    /\ trace' = Append(trace, [pc |-> pc, ap |-> ap, fp |-> fp])
    /\ Len(accessed_addresses') >= Len(accessed_addresses)
    /\ SubSeq(accessed_addresses', 1, Len(accessed_addresses))
         = accessed_addresses
    /\ \A x \in {last'.addrs[1], last'.addrs[2], last'.addrs[3], pc} :
           InSeq(x, accessed_addresses')
    /\ \A i \in 1..Len(accessed_addresses') :
           \/ InSeq(accessed_addresses'[i], accessed_addresses)
           \/ accessed_addresses'[i]
                \in {last'.addrs[1], last'.addrs[2], last'.addrs[3], pc}

C13_RegistersRelocatable ==
    (StepOk /\ IsRel(last.pc) /\ IsRel(last.ap) /\ IsRel(last.fp)) =>
        IsRel(pc) /\ IsRel(ap) /\ IsRel(fp)


\* what the variable of the last hint held when the hint was called
IdsCell(name) ==
    mem_get(last.memory, Shift(last.fp, last.ids[name].offset1))

\* the last call was the hint named and it returned Ok
HintOk(names) == last.op \in names /\ IsOk(last.res)

DictAccessHints == {"dict_read", "dict_write", "dict_update"}

\* C14: after every successful dict_read, dict_write and dict_update the
\* tracker of ids.dict_ptr has its current_ptr three cells on from
\* ids.dict_ptr, in the same segment, and every other tracker is there as
\* before with the current_ptr it had.
C14_PointerAdvances ==
    HintOk(DictAccessHints) =>
        /\ IsRel(IdsCell("dict_ptr"))
        /\ DOMAIN trackers = DOMAIN last.trackers
        /\ IdsCell("dict_ptr")[2] \in DOMAIN trackers
        /\ last.trackers[IdsCell("dict_ptr")[2]].current_ptr
             = IdsCell("dict_ptr")
        /\ trackers[IdsCell("dict_ptr")[2]].current_ptr
             = RelV(IdsCell("dict_ptr")[2], IdsCell("dict_ptr")[3] + 3)
        /\ \A g \in DOMAIN trackers \ {IdsCell("dict_ptr")[2]} :
               trackers[g].current_ptr = last.trackers[g].current_ptr

\* a dict_write moved the tracker of segment 3 from offset 3 to 6 and left
\* the tracker of segment 2 where it was
C14_Witness ==
    /\ HintOk({"dict_write"})
    /\ DOMAIN trackers = {2, 3}
    /\ last.trackers[3].current_ptr = RelV(3, 3)
    /\ trackers[3].current_ptr = RelV(3, 6)
    /\ trackers[2].current_ptr = RelV(2, 0)

\* the value a tracker holds for a key: the stored one, the default of a
\* Default tracker for a key it has not stored, None otherwise
Holds(tracker, key) ==
    CASE key \in DOMAIN tracker.data -> IntV(tracker.data[key])
      [] key \notin DOMAIN tracker.data /\ tracker.is_default ->
            IntV(tracker.default)
      [] OTHER -> None

\* the last hint was given integers in the variables named and a
\* dict_ptr that is the current_ptr of a tracker
GivenDict(names) ==
    /\ \A n \in names : IsInt(IdsCell(n))
    /\ IsRel(IdsCell("dict_ptr"))
    /\ IdsCell("dict_ptr")[2] \in DOMAIN last.trackers
    /\ last.trackers[IdsCell("dict_ptr")[2]].current_ptr = IdsCell("dict_ptr")

TrackerGiven == last.trackers[IdsCell("dict_ptr")[2]]

\* C15: dict_update with a prev_value other than the value the tracker
\* holds for the key returns WrongPrevValue(prev_value, held value, key)
\* and leaves every tracker, data and current_ptr, as it was.
C15_WrongPrevValue ==
    (/\ last.op = "dict_update"
     /\ GivenDict({"key", "prev_value", "new_value"})
     /\ ~IsNone(Holds(TrackerGiven, IdsCell("key")[2]))
     /\ Holds(TrackerGiven, IdsCell("key")[2]) # IdsCell("prev_value")) =>
        /\ last.res = Err(<<"WrongPrevValue", IdsCell("prev_value")[2],
                            Holds(TrackerGiven, IdsCell("key")[2])[2],
                            IdsCell("key")[2]>>)
        /\ trackers = last.trackers

\* prev_value 4 was given for key 2, which the tracker maps to 3
C15_Witness ==
    /\ last.op = "dict_update"
    /\ last.res = Err(<<"WrongPrevValue", 4, 3, 2>>)
    /\ trackers = last.trackers


\* the variable a dict hint takes its dict pointer from, and the
\* variables it reads before it looks the tracker up
PointerOf(op) ==
    CASE op = "dict_squash_copy_dict" -> "dict_accesses_end"
      [] op = "dict_squash_update_ptr" -> "squashed_dict_start"
      [] OTHER -> "dict_ptr"

IntegersOf(op) ==
    CASE op = "dict_read" -> {"key"}
      [] op = "dict_write" -> {"key", "new_value"}
      [] op = "dict_update" -> {"key", "prev_value", "new_value"}
      [] OTHER -> {}

PointersOf(op) ==
    IF op = "dict_squash_update_ptr" THEN {"squashed_dict_end"} ELSE {}

PointerHints ==
    {"dict_read", "dict_write", "dict_update", "dict_squash_copy_dict",
     "dict_squash_update_ptr"}

\* what the variable of the hint this transition runs holds before it
CellBefore(name) == mem_get(memory, Shift(fp, last'.ids[name].offset1))

\* C16: every dict hint that takes a dict pointer (dict_read, dict_write,
\* dict_update, dict_squash_copy_dict, dict_squash_update_ptr), its other
\* variables holding what it reads from them, returns
\* NoDictTracker(segment) when there is no tracker for the segment of the
\* pointer and MismatchedDictPtr(current_ptr of the tracker, pointer) when
\* the tracker's current_ptr is another address; either way trackers,
\* scopes and memory are left as they were.
C16_NoTrackerOrMismatch ==
    [][(/\ last'.op \in PointerHints
        /\ IsRel(CellBefore(PointerOf(last'.op)))
        /\ \A n \in IntegersOf(last'.op) : IsInt(CellBefore(n))
        /\ \A n \in PointersOf(last'.op) : IsRel(CellBefore(n))) =>
          /\ CellBefore(PointerOf(last'.op))[2] \notin DOMAIN trackers =>
                /\ last'.res = Err(<<"NoDictTracker",
                                     CellBefore(PointerOf(last'.op))[2]>>)
                /\ UNCHANGED <<trackers, scopes, memory>>
          /\ (/\ CellBefore(PointerOf(last'.op))[2] \in DOMAIN trackers
              /\ trackers[CellBefore(PointerOf(last'.op))[2]].current_ptr
                   # CellBefore(PointerOf(last'.op))) =>
                /\ last'.res =
                     Err(<<"MismatchedDictPtr",
                           trackers[CellBefore(PointerOf(last'.op))[2]].current_ptr,
                           CellBefore(PointerOf(last'.op))>>)
                /\ UNCHANGED <<trackers, scopes, memory>>
    ]_vars

\* dict_squash_update_ptr was given the start of segment 3, whose tracker
\* has moved on to offset 3
C16_Witness ==
    /\ last.op = "dict_squash_update_ptr"
    /\ last.res = Err(<<"MismatchedDictPtr", RelV(3, 3), RelV(3, 0)>>)
    /\ trackers = last.trackers
    /\ memory = last.memory


\* C17: in every state the dict hints reach, the trackers are kept one to
\* a segment (they are a map from the segment index) and the current_ptr
\* of each tracker lies in the segment the tracker is registered under.
C17_TrackerSegments ==
    \A g \in DOMAIN trackers :
        IsRel(trackers[g].current_ptr) /\ trackers[g].current_ptr[2] = g


\* the address of a variable of the last hint
IdsAddr(name) == Shift(last.fp, last.ids[name].offset1)

DataKept == \A g \in DOMAIN last.trackers :
                g \in DOMAIN trackers /\ trackers[g].data = last.trackers[g].data

\* C18: dict_read never changes the data of a tracker.  Given an integer
\* key and the current_ptr of a tracker: where the tracker holds a value
\* for the key (the stored one, or the default of a Default tracker for a
\* key not stored) and ids.value is empty or holds that value, dict_read
\* returns Ok, and whenever it returns Ok ids.value holds that value;
\* where a Simple tracker has nothing stored for the key it returns
\* NoValueForKey(key).
C18_DictRead ==
    last.op = "dict_read" =>
        /\ DataKept
        /\ IsOk(last.res) =>
               /\ GivenDict({"key"})
               /\ ~IsNone(Holds(TrackerGiven, IdsCell("key")[2]))
               /\ mem_get(memory, IdsAddr("value"))
                    = Holds(TrackerGiven, IdsCell("key")[2])
        /\ (/\ GivenDict({"key"})
            /\ ~IsNone(Holds(TrackerGiven, IdsCell("key")[2]))
            /\ IdsCell("value")
                 \in {None, Holds(TrackerGiven, IdsCell("key")[2])}) =>
               IsOk(last.res)
        /\ (GivenDict({"key"})
              /\ IsNone(Holds(TrackerGiven, IdsCell("key")[2]))) =>
               last.res = Err(<<"NoValueForKey", IdsCell("key")[2]>>)

\* a Default tracker with nothing stored gave its default for key 5 and
\* still has nothing stored
C18_Witness ==
    /\ HintOk({"dict_read"})
    /\ IdsCell("key") = IntV(5)
    /\ TrackerGiven.is_default
    /\ IsNone(IdsCell("value"))
    /\ mem_get(memory, IdsAddr("value")) = IntV(DefaultOfDict)
    /\ trackers[3].data = EmptyDict


\* C19: given an integer key k, an integer new value n and the
\* current_ptr p of a tracker: where the tracker holds a value for k (the
\* stored one, or the default of a Default tracker for a key not stored)
\* and the cell p + 1 is empty or holds that value, dict_write returns Ok,
\* and whenever it returns Ok the cell p + 1 holds that value and the
\* tracker maps k to n; where a Simple tracker has nothing stored for k
\* it returns NoValueForKey(k).
C19_DictWrite ==
    last.op = "dict_write" =>
        /\ IsOk(last.res) =>
               /\ GivenDict({"key", "new_value"})
               /\ ~IsNone(Holds(TrackerGiven, IdsCell("key")[2]))
               /\ mem_get(memory, Shift(IdsCell("dict_ptr"), 1))
                    = Holds(TrackerGiven, IdsCell("key")[2])
               /\ Holds(trackers[IdsCell("dict_ptr")[2]], IdsCell("key")[2])
                    = IdsCell("new_value")
               /\ IdsCell("key")[2]
                    \in DOMAIN trackers[IdsCell("dict_ptr")[2]].data
        /\ (/\ GivenDict({"key", "new_value"})
            /\ ~IsNone(Holds(TrackerGiven, IdsCell("key")[2]))
            /\ mem_get(last.memory, Shift(IdsCell("dict_ptr"), 1))
                 \in {None, Holds(TrackerGiven, IdsCell("key")[2])}) =>
               IsOk(last.res)
        /\ (GivenDict({"key", "new_value"})
              /\ IsNone(Holds(TrackerGiven, IdsCell("key")[2]))) =>
               last.res = Err(<<"NoValueForKey", IdsCell("key")[2]>>)

\* a Default tracker with nothing stored for key 5 gave its default as
\* the previous value and maps 5 to the new value 3
C19_Witness ==
    /\ HintOk({"dict_write"})
    /\ IdsCell("key") = IntV(5)
    /\ IdsCell("new_value") = IntV(3)
    /\ IdsCell("dict_ptr") = RelV(3, 3)
    /\ last.trackers[3].data = EmptyDict
    /\ mem_get(memory, RelV(3, 4)) = IntV(DefaultOfDict)
    /\ trackers[3].data[5] = 3


\* the scope on top holds no initial_dict
NoInitialDictInScope == "initial_dict" \notin DOMAIN scopes[Len(scopes)]

\* C20: default_dict_new given an integer d in ids.default_value and an
\* empty cell at ap returns Ok, and whenever it returns Ok there is
\* exactly one new segment s, the cell at ap holds (s, 0), and the dict
\* manager has, beside the trackers it had, a Default tracker for s with
\* default d and current_ptr (s, 0), its data empty when no initial_dict
\* is in scope.  When ids.default_value does not hold an integer it
\* returns ExpectedInteger and leaves segments, trackers and memory as
\* they were.
C20_DefaultDictNew ==
    last.op = "default_dict_new" =>
        /\ IsOk(last.res) =>
               /\ IsInt(IdsCell("default_value"))
               /\ num_segments = last.num_segments + 1
               /\ mem_get(memory, last.ap) = RelV(last.num_segments, 0)
               /\ DOMAIN trackers = DOMAIN last.trackers \cup {last.num_segments}
               /\ last.num_segments \notin DOMAIN last.trackers
               /\ \A g \in DOMAIN last.trackers : trackers[g] = last.trackers[g]
               /\ trackers[last.num_segments].is_default
               /\ trackers[last.num_segments].default = IdsCell("default_value")[2]
               /\ trackers[last.num_segments].current_ptr
                    = RelV(last.num_segments, 0)
               /\ NoInitialDictInScope =>
                      trackers[last.num_segments].data = EmptyDict
        /\ (IsInt(IdsCell("default_value")) /\ IsNone(mem_get(last.memory, last.ap))) =>
               IsOk(last.res)
        /\ ~IsInt(IdsCell("default_value")) =>
               /\ last.res = Err(<<"ExpectedInteger", IdsAddr("default_value")>>)
               /\ num_segments = last.num_segments
               /\ trackers = last.trackers
               /\ memory = last.memory

\* segment 4 was made for a Default tracker with default 5 and nothing
\* stored, beside the two trackers there were
C20_Witness ==
    /\ HintOk({"default_dict_new"})
    /\ NoInitialDictInScope
    /\ DOMAIN trackers = {2, 3, 4}
    /\ num_segments = 5
    /\ trackers[4] = Tracker(RelV(4, 0), TRUE, 5, EmptyDict)
    /\ mem_get(memory, ap) = RelV(4, 0)


HintNames ==
    {"dict_new", "default_dict_new", "dict_read", "dict_write", "dict_update",
     "dict_squash_copy_dict", "dict_squash_update_ptr", "pow"}

\* C22: no call of a hint (dict_new, default_dict_new, dict_read,
\* dict_write, dict_update, dict_squash_copy_dict, dict_squash_update_ptr,
\* pow), whatever it returns, changes pc, ap or fp or the trace.
C22_HintsKeepRegisters ==
    [][last'.op \in HintNames => UNCHANGED <<pc, ap, fp, trace>>]_vars

\* dict_new returned Ok after a step had moved the registers and pushed a
\* trace entry
C22_Witness ==
    /\ HintOk({"dict_new"})
    /\ Len(trace) = 1
    /\ pc # RelV(0, 0)
    /\ pc = last.pc /\ ap = last.ap /\ fp = last.fp
    /\ memory # last.memory


\* the cells are in memory with the values given
Holding(cells) ==
    \A c \in DOMAIN MemOf(cells) :
        c \in DOMAIN memory /\ memory[c] = MemOf(cells)[c]

OnFunctionCall == Holding(FunctionCallProgram \o FrameData)

AtTerminalPc ==
    /\ OnFunctionCall
    /\ pc = RelV(3, 0)
    /\ ap = RelV(1, 6)
    /\ fp = RelV(2, 0)
    /\ Len(trace) = 5

\* C23: stepping the function-call program from pc = (0,3), ap = fp = (1,2)
\* with (1,0) = (2,0) and (1,1) = (3,0) reaches the terminal pc (3,0): each
\* of the steps succeeds, pc is (3,0) for the first time after exactly five
\* steps, and then ap = (1,6), fp = (2,0) and the trace has five entries.
C23_ReachesTerminalPc ==
    /\ [](OnFunctionCall =>
            /\ (last.op = "step" /\ last.ntrace < 5) => IsOk(last.res)
            /\ pc = RelV(3, 0) => Len(trace) >= 5
            /\ Len(trace) = 5 => AtTerminalPc)
    /\ (OnFunctionCall /\ trace = <<>>) ~> AtTerminalPc

C23_Witness == AtTerminalPc /\ StepOk /\ last.pc = RelV(0, 7)


\* the instruction is a ret: dst = [fp - 2], op1 = [fp - 1], jump to res,
\* fp from dst, ap as it is
IsRet(instr) ==
    /\ instr.opcode = "Ret"
    /\ instr.dst_register = "FP" /\ instr.off0 = -2
    /\ instr.op1_addr = "FP" /\ instr.off2 = -1
    /\ instr.res = "Op1"
    /\ instr.pc_update = "Jump"
    /\ instr.fp_update = "Dst"
    /\ instr.ap_update = "Regular"

OnRet == Holding(RetProgram \o FrameData)

\* C24: a step of a ret (dst at fp - 2, op1 at fp - 1, pc_update Jump,
\* fp_update Dst, ap_update Regular) that returns Ok leaves in pc what the
\* cell at the old fp - 1 held, in fp what the cell at the old fp - 2 held,
\* and ap as it was; with (1,0) = (2,0), (1,1) = (3,0), pc = (0,0) and
\* ap = fp = (1,2), one step returns Ok with pc = (3,0), ap = (1,2),
\* fp = (2,0).
C24_Ret ==
    /\ (StepOk /\ IsRet(last.instr)) =>
            /\ IsRel(last.fp) /\ last.fp[3] >= 2
            /\ pc = mem_get(last.memory, Shift(last.fp, -1))
            /\ fp = mem_get(last.memory, Shift(last.fp, -2))
            /\ ap = last.ap
    /\ (/\ OnRet /\ last.op = "step" /\ last.ntrace = 0
        /\ last.pc = RelV(0, 0) /\ last.ap = RelV(1, 2)
        /\ last.fp = RelV(1, 2)) =>
            /\ IsOk(last.res)
            /\ pc = RelV(3, 0) /\ ap = RelV(1, 2) /\ fp = RelV(2, 0)

C24_Witness ==
    /\ OnRet /\ StepOk /\ IsRet(last.instr)
    /\ last.pc = RelV(0, 0) /\ last.fp = RelV(1, 2)
    /\ pc = RelV(3, 0) /\ fp = RelV(2, 0) /\ ap = RelV(1, 2)


OnMulFrame == Holding(MulProgram \o FrameData)

OnMulData == Holding(MulProgram \o MulData)

\* 4 * 5 in the field: 20 for the prime of the machine
Product == IntV((4 * 5) % PRIME)

\* the first three steps of the multiplication program, as the claim has
\* them
ThreeSteps ==
    /\ last.ntrace = 0 =>
            /\ IsOk(last.res)
            /\ pc = RelV(0, 2) /\ ap = RelV(1, 2)
    /\ last.ntrace = 1 =>
            /\ IsOk(last.res)
            /\ pc = RelV(0, 4) /\ ap = RelV(1, 3)
    /\ last.ntrace = 2 =>
            /\ IsOk(last.res)
            /\ pc = RelV(0, 6) /\ ap = RelV(1, 4)

\* C25, amended: with the cells (1,0) = (2,0) and (1,1) = (3,0) below the
\* frame, the first three steps of the multiplication program return Ok
\* with pc = (0,2), ap = (1,2), then pc = (0,4), ap = (1,3), then
\* pc = (0,6), ap = (1,4), writing 4 at (1,2) and 5 at (1,3); none of the
\* three writes the cell (1,4) at the final ap, which holds 20 after them
\* when it was preset to 20 and is empty otherwise, and the fourth step
\* ([ap] = [ap - 1] * [ap - 2]) returns Ok with 20 in it.
C25_ThreeSteps ==
    /\ (OnMulFrame /\ last.op = "step") =>
            /\ ThreeSteps
            /\ last.ntrace = 0 => mem_get(memory, RelV(1, 2)) = IntV(4)
            /\ last.ntrace = 2 => mem_get(memory, RelV(1, 3)) = IntV(5)
            /\ last.ntrace < 3 =>
                    mem_get(memory, RelV(1, 4)) =
                        mem_get(last.memory, RelV(1, 4))
            /\ last.ntrace = 3 =>
                    /\ IsOk(last.res)
                    /\ pc = RelV(0, 7) /\ ap = RelV(1, 4)
                    /\ mem_get(memory, ap) = Product
    /\ (OnMulFrame /\ last.op = "new") =>
            mem_get(memory, RelV(1, 4)) \in {None, Product}

C25_Witness ==
    /\ OnMulData /\ StepOk /\ last.ntrace = 2
    /\ ~IsNone(mem_get(last.memory, RelV(1, 4)))
    /\ pc = RelV(0, 6) /\ ap = RelV(1, 4)
    /\ mem_get(memory, ap) = Product

\* C25 as stated: with the program at (0,0..7), three steps return Ok with
\* the registers above and the cell at the final ap holds 20.
C25_AsStated ==
    (Holding(MulProgram) /\ last.op = "step") =>
        /\ ThreeSteps
        /\ last.ntrace = 2 => mem_get(memory, ap) = Product


NoAddressTwice ==
    \A i, j \in 1..Len(accessed_addresses) :
        accessed_addresses[i] = accessed_addresses[j] => i = j

\* C26: after every step that returns Ok the accessed addresses contain the
\* dst, op0 and op1 addresses of the step and the pc it started from; in
\* every reachable state they contain no address twice; and no transition
\* removes an address from them.
C26_AccessedAddresses ==
    /\ [](/\ NoAddressTwice
          /\ StepOk =>
                \A x \in {last.addrs[1], last.addrs[2], last.addrs[3],
                          last.pc} : InSeq(x, accessed_addresses))
    /\ [][\A i \in 1..Len(accessed_addresses) :
              InSeq(accessed_addresses[i], accessed_addresses')]_vars

\* a second step that found some of its addresses recorded by the first
C26_Witness ==
    /\ StepOk
    /\ Len(trace) = 2
    /\ \E x \in {last.addrs[1], last.addrs[2], last.addrs[3], last.pc} :
           InSeq(x, accessed_addresses)
             /\ \E i \in 1..4 : i <= Len(accessed_addresses)
                                  /\ accessed_addresses[i] = x
    /\ Len(accessed_addresses) > 4
    /\ Len(accessed_addresses) < 8


\* C27 as the specification states it: a step of an AssertEq instruction
\* returns Ok only if res is defined and res = dst, integers or addresses;
\* a step whose res is undefined or differs from dst fails and leaves pc,
\* ap and fp as they were.
C27_AssertEq ==
    (last.op = "step" /\ last.instr.opcode = "AssertEq") =>
        /\ IsOk(last.res) =>
                /\ ~IsNone(last.operands.res)
                /\ last.operands.res = last.operands.dst
        /\ (IsNone(last.operands.res)
              \/ last.operands.res # last.operands.dst) =>
                /\ ~IsOk(last.res)
                /\ pc = last.pc /\ ap = last.ap /\ fp = last.fp


\* C28 as the specification states it: a step of a Call returns Ok only if
\* op0 = pc + instr.size and dst = fp, the pc and fp the step started from;
\* a call that finds another value in the cell of op0 or in the cell of dst
\* fails.
C28_Call ==
    (last.op = "step" /\ last.instr.opcode = "Call") =>
        /\ IsOk(last.res) =>
                /\ last.operands.op0 = Shift(last.pc, size(last.instr))
                /\ last.operands.dst = last.fp
        /\ (\/ mem_get(last.memory, ReturnPcCell)
                 \notin {None, Shift(last.pc, size(last.instr))}
            \/ mem_get(last.memory, SavedFpCell) \notin {None, last.fp}) =>
                ~IsOk(last.res)


\* a call of deduce_op0 or deduce_op1 for an AssertEq with res Mul
MulDeduction ==
    /\ last.op \in {"deduce_op0", "deduce_op1"}
    /\ last.instr.opcode = "AssertEq"
    /\ last.instr.res = "Mul"

\* the operand the call was given: op1 for deduce_op0, op0 for deduce_op1
KnownOperand ==
    IF last.op = "deduce_op0" THEN last.operands.op1 ELSE last.operands.op0

\* C29 as the specification states it: for an AssertEq with res Mul, an
\* integer dst and a known operand that is a nonzero integer of [0, PRIME),
\* deduce_op0 and deduce_op1 return the quotient of the field: the operand
\* x they return has x * known mod PRIME = dst mod PRIME, and the res they
\* return is dst.
C29_FieldQuotient ==
    (/\ MulDeduction
     /\ IsInt(last.operands.dst)
     /\ IsInt(KnownOperand) /\ KnownOperand[2] # 0) =>
        /\ IsOk(last.res)
        /\ IsInt(last.res.val[1])
        /\ (last.res.val[1][2] * KnownOperand[2]) % PRIME
             = last.operands.dst[2] % PRIME
        /\ last.res.val[2] = last.operands.dst


NoDeduction == last.res = Ded(None, None)

\* C30: deduce_op0 and deduce_op1 return Ok((None, None)), not an error,
\* when the known operand of an AssertEq with res Mul is the integer 0, and
\* also for the opcodes Ret and NOp, for deduce_op0 of an AssertEq with res
\* Op1, and for an AssertEq whose dst is missing.
C30_NoDeduction ==
    last.op \in {"deduce_op0", "deduce_op1"} =>
        /\ (MulDeduction /\ KnownOperand = IntV(0)) => NoDeduction
        /\ last.instr.opcode \in {"Ret", "NOp"} => NoDeduction
        /\ (/\ last.op = "deduce_op0"
            /\ last.instr.opcode = "AssertEq"
            /\ last.instr.res = "Op1") => NoDeduction
        /\ (last.instr.opcode = "AssertEq" /\ IsNone(last.operands.dst)) =>
                NoDeduction

\* deduce_op1 was given dst = 4 and op0 = 0 for an AssertEq with res Mul
C30_Witness ==
    /\ MulDeduction
    /\ last.op = "deduce_op1"
    /\ last.operands.dst = IntV(4)
    /\ KnownOperand = IntV(0)
    /\ NoDeduction


\* the last call was a step whose compute_operands returned Ok
OperandsOk == last.op = "step" /\ last.addrs # <<>>

\* the operand cells hold the operands the call returned
OperandCellsHold ==
    /\ mem_get(memory, last.addrs[1]) = last.operands.dst
    /\ mem_get(memory, last.addrs[2]) = last.operands.op0
    /\ mem_get(memory, last.addrs[3]) = last.operands.op1

\* a cell the memory held before the call holds the same value, and a
\* cell it did not hold is absent still unless it is an operand cell
OnlyAbsentOperandCellsWritten ==
    \A a \in DOMAIN memory \cup DOMAIN last.memory :
        \/ a \in DOMAIN last.memory /\ a \in DOMAIN memory
             /\ memory[a] = last.memory[a]
        \/ a \notin DOMAIN last.memory
             /\ \E i \in 1..3 : last.addrs[i] = RelV(a[1], a[2])

\* C31: after compute_operands returns Ok the cells at dst_addr, op0_addr
\* and op1_addr hold the returned dst, op0 and op1, also when two of the
\* addresses are one; a cell that held a value is not written and no
\* other cell changes.
C31_OperandCells ==
    OperandsOk => OperandCellsHold /\ OnlyAbsentOperandCellsWritten


\* the last call was a dict_update given integers, the current_ptr of a
\* tracker, and a key the tracker has nothing stored for
UpdateOfMissingKey ==
    /\ last.op = "dict_update"
    /\ GivenDict({"key", "prev_value", "new_value"})
    /\ IdsCell("key")[2] \notin DOMAIN TrackerGiven.data

\* C32: dict_update for a key the tracker has no entry for.  On a Default
\* tracker it compares ids.prev_value with the default value: when they
\* are equal it returns Ok, the tracker maps the key to new_value, keeps
\* its other entries, and its current_ptr is 3 cells on; when they differ
\* it returns WrongPrevValue(prev_value, default, key).  On a Simple
\* tracker it returns NoValueForKey(key).
C32_UpdateMissingKey ==
    UpdateOfMissingKey =>
        Let([g \in {IdsCell("dict_ptr")[2]} |->
            CASE TrackerGiven.is_default
                   /\ IdsCell("prev_value")[2] = TrackerGiven.default ->
                    /\ last.res = Ok(None)
                    /\ DOMAIN trackers[g].data
                         = DOMAIN TrackerGiven.data \cup {IdsCell("key")[2]}
                    /\ trackers[g].data[IdsCell("key")[2]]
                         = IdsCell("new_value")[2]
                    /\ \A k \in DOMAIN TrackerGiven.data :
                           trackers[g].data[k] = TrackerGiven.data[k]
                    /\ trackers[g].current_ptr
                         = RelV(g, IdsCell("dict_ptr")[3] + 3)
              [] TrackerGiven.is_default
                   /\ IdsCell("prev_value")[2] # TrackerGiven.default ->
                    last.res = Err(<<"WrongPrevValue", IdsCell("prev_value")[2],
                                     TrackerGiven.default, IdsCell("key")[2]>>)
              [] OTHER -> last.res = Err(<<"NoValueForKey", IdsCell("key")[2]>>)])

\* on the Default tracker of segment 3, which has nothing stored, key 2
\* was updated from the default 4 to 6 and the tracker moved from (3, 3)
\* to (3, 6)
C32_Witness ==
    /\ UpdateOfMissingKey
    /\ last.res = Ok(None)
    /\ TrackerGiven.is_default
    /\ IdsCell("key") = IntV(2)
    /\ IdsCell("prev_value") = IntV(DefaultOfDict)
    /\ trackers[3].data = [k \in {2} |-> 6]
    /\ trackers[3].current_ptr = RelV(3, 6)


GivenSquashed ==
    /\ IsRel(IdsCell("squashed_dict_start"))
    /\ IsRel(IdsCell("squashed_dict_end"))
    /\ IdsCell("squashed_dict_start")[2] \in DOMAIN last.trackers
    /\ last.trackers[IdsCell("squashed_dict_start")[2]].current_ptr
         = IdsCell("squashed_dict_start")

\* the current_ptr of the tracker given is at squashed_dict_end and its
\* data is what it was
PointerMoved ==
    /\ GivenSquashed
    /\ trackers[IdsCell("squashed_dict_start")[2]].current_ptr
         = IdsCell("squashed_dict_end")
    /\ DataKept

\* C34: a dict_squash_update_ptr that returns Ok was given in
\* ids.squashed_dict_start the current_ptr of a tracker; that tracker's
\* current_ptr is ids.squashed_dict_end afterwards and its data is
\* unchanged; get_tracker then succeeds for squashed_dict_end and, when
\* the two pointers differ, fails with MismatchedDictPtr for
\* squashed_dict_start.
C34_SquashedPointer ==
    HintOk({"dict_squash_update_ptr"}) =>
        /\ PointerMoved
        /\ IsOk(get_tracker(HS, IdsCell("squashed_dict_end")))
        /\ IdsCell("squashed_dict_start") # IdsCell("squashed_dict_end") =>
               get_tracker(HS, IdsCell("squashed_dict_start"))
                 = Err(<<"MismatchedDictPtr", IdsCell("squashed_dict_end"),
                         IdsCell("squashed_dict_start")>>)


\* the address of ids.prev_locs.exp and what the last hint found there
ExpAddr == Shift(IdsAddr("prev_locs"), 4)

ExpCell == mem_get(last.memory, ExpAddr)

\* (exp mod P) & 1
LocsBit == IntV((ExpCell[2] % PRIME) % 2)

\* C35: pow reads the integer exp at the address of ids.prev_locs plus 4
\* and inserts (exp mod P) & 1, which is 0 or 1, into ids.locs.  It
\* returns FailedToGetIds when prev_locs is not among the ids,
\* ExpectedInteger(prev_locs + 4) when that cell is absent or holds a
\* relocatable, and InconsistentMemory when ids.locs holds another value;
\* it writes no other cell, and none when it fails.
C35_Pow ==
    last.op = "pow" =>
        CASE "prev_locs" \notin DOMAIN last.ids ->
                last.res = Err(<<"FailedToGetIds">>) /\ memory = last.memory
          [] "prev_locs" \in DOMAIN last.ids /\ ~IsInt(ExpCell) ->
                /\ last.res = Err(<<"ExpectedInteger", ExpAddr>>)
                /\ memory = last.memory
          [] "prev_locs" \in DOMAIN last.ids /\ IsInt(ExpCell)
               /\ IdsCell("locs") \in {None, LocsBit} ->
                /\ last.res = Ok(None)
                /\ LocsBit \in {IntV(0), IntV(1)}
                /\ memory = mem_put(last.memory, IdsAddr("locs"), LocsBit)
          [] OTHER ->
                /\ last.res = Err(<<"InconsistentMemory", IdsAddr("locs"),
                                    IdsCell("locs"), LocsBit>>)
                /\ memory = last.memory

\* exp was P + 2, an odd number whose residue 2 is even: pow wrote 0 into
\* the empty ids.locs
C35_Witness ==
    /\ HintOk({"pow"})
    /\ ExpCell = IntV(PRIME + 2)
    /\ IsNone(IdsCell("locs"))
    /\ mem_get(memory, IdsAddr("locs")) = IntV(0)


\* C36: a step that returns an error leaves pc, ap, fp, the trace, the
\* accessed addresses and current_step as they were before the step.
C36_FailedStepChangesNothing ==
    [][(last'.op = "step" /\ last'.res.st = "err") =>
          UNCHANGED <<pc, ap, fp, trace, accessed_addresses, current_step>>
    ]_vars


\* a step that returns Ok counts one step, and no call counts backwards
StepCounted ==
    /\ (last'.op = "step" /\ IsOk(last'.res)) =>
           current_step' = current_step + 1
    /\ current_step' >= current_step

\* C37: from a new machine (empty trace, current_step 0), after any
\* sequence of calls of step, successful or failing, the length of the
\* trace is current_step; current_step grows by exactly 1 in a step that
\* returns Ok and never decreases.
C37_TraceLengthIsStep ==
    [](Len(trace) = current_step) /\ [][StepCounted]_vars


\* the last call was a dict_read or dict_write given the current_ptr of a
\* Simple tracker that has nothing stored for the key, and it returned
\* NoValueForKey
NoValueForKeyReturned ==
    /\ last.op \in {"dict_read", "dict_write"}
    /\ GivenDict({"key"})
    /\ ~TrackerGiven.is_default
    /\ IdsCell("key")[2] \notin DOMAIN TrackerGiven.data
    /\ last.res = Err(<<"NoValueForKey", IdsCell("key")[2]>>)

\* C38: when dict_read or dict_write returns NoValueForKey (a Simple
\* tracker, the key not stored) the tracker is as it was: its current_ptr
\* has not moved and its data is unchanged, so that get_tracker still
\* accepts the same dict_ptr.
C38_NoValueForKeyKeepsTracker ==
    NoValueForKeyReturned =>
        /\ trackers[IdsCell("dict_ptr")[2]] = TrackerGiven
        /\ IsOk(get_tracker(HS, IdsCell("dict_ptr")))


\* the last call was a dict hint that returned InconsistentMemory from
\* its write into memory
InconsistentWrite ==
    /\ last.op \in {"dict_write", "dict_read", "dict_new", "default_dict_new"}
    /\ last.res.st = "err"
    /\ last.res.err[1] = "InconsistentMemory"

\* C39: when dict_write (writing prev_value at dict_ptr + 1), dict_read
\* (writing ids.value), dict_new or default_dict_new (writing the base at
\* ap) fails because the write is inconsistent, the dict manager and the
\* segments are as before the hint: no tracker's data or current_ptr has
\* changed, no tracker was made and no segment was allocated.
C39_InconsistentWriteKeepsDicts ==
    InconsistentWrite =>
        trackers = last.trackers /\ num_segments = last.num_segments


\* the transition is an access given integers and, in ids.dict_ptr, a
\* pointer into the segment of a tracker
AccessOfTracker ==
    /\ last'.op \in DictAccessHints
    /\ \A n \in IntegersOf(last'.op) : IsInt(CellBefore(n))
    /\ IsRel(CellBefore("dict_ptr"))
    /\ CellBefore("dict_ptr")[2] \in DOMAIN trackers

TrackerBefore == trackers[CellBefore("dict_ptr")[2]]

\* a dictionary just made starts at offset 0 of its segment
MadeAtBase ==
    (last'.op \in {"dict_new", "default_dict_new"} /\ IsOk(last'.res)) =>
        trackers'[num_segments].current_ptr = RelV(num_segments, 0)

\* an access that returns Ok was given the current_ptr and moves it on by
\* 3; one given another pointer returns MismatchedDictPtr
AcceptedInOrder ==
    AccessOfTracker =>
        /\ IsOk(last'.res) =>
               /\ CellBefore("dict_ptr") = TrackerBefore.current_ptr
               /\ trackers'[CellBefore("dict_ptr")[2]].current_ptr
                    = Shift(CellBefore("dict_ptr"), 3)
        /\ CellBefore("dict_ptr") # TrackerBefore.current_ptr =>
               last'.res = Err(<<"MismatchedDictPtr", TrackerBefore.current_ptr,
                                 CellBefore("dict_ptr")>>)

\* an access that does not return Ok is not counted: current_ptr stays
OnlySuccessesCount ==
    (AccessOfTracker /\ ~IsOk(last'.res)) =>
        trackers'[CellBefore("dict_ptr")[2]].current_ptr
          = TrackerBefore.current_ptr

\* C40: a dictionary made by dict_new or default_dict_new at (s, 0) and
\* accessed by dict_read, dict_write and dict_update only has its
\* current_ptr at (s, 3n) after n successful accesses: it starts at
\* (s, 0), an access is accepted only when given the current_ptr, each
\* accepted access moves current_ptr on by 3 and no other access moves
\* it, and an access given an earlier pointer returns MismatchedDictPtr.
C40_AccessOrder ==
    [][MadeAtBase /\ AcceptedInOrder /\ OnlySuccessesCount]_vars

=============================================================================
